---- MODULE Spec2Model ----
(***************************************************************************)
(* Catalog item construction of Axis3LandSbas: the identifier grammars and *)
(* the sequence counter (stac_products.py, stac_structure.py) and          *)
(* create_stac_structure (stac_structure.py), as a state machine.          *)
(***************************************************************************)
EXTENDS Integers, Sequences, FiniteSets, TLC

(***************************************************************************)
(* Strings.  An identifier is a string; Ch(s, i) is its i-th character.    *)
(***************************************************************************)
Ch(s, i) == SubSeq(s, i, i)

DigitChars == {"0", "1", "2", "3", "4", "5", "6", "7", "8", "9"}

UpperChars ==
    {"A", "B", "C", "D", "E", "F", "G", "H", "I", "J", "K", "L", "M",
     "N", "O", "P", "Q", "R", "S", "T", "U", "V", "W", "X", "Y", "Z"}

\* the character class [A-Z0-9\-] of the service UID
SvcChars == UpperChars \cup DigitChars \cup {"-"}

AllIn(s, set) == \A i \in 1..Len(s) : Ch(s, i) \in set

\* \d{n}
IsDigits(s, n) == Len(s) = n /\ AllIn(s, DigitChars)

DigitVal(c) ==
    CASE c = "0" -> 0 [] c = "1" -> 1 [] c = "2" -> 2 [] c = "3" -> 3
      [] c = "4" -> 4 [] c = "5" -> 5 [] c = "6" -> 6 [] c = "7" -> 7
      [] c = "8" -> 8 [] c = "9" -> 9

\* int(s) of a string of decimal digits
RECURSIVE ToInt(_)
ToInt(s) ==
    IF Len(s) = 0 THEN 0
    ELSE 10 * ToInt(SubSeq(s, 1, Len(s) - 1)) + DigitVal(Ch(s, Len(s)))

\* position of the first "_" of s, 0 when there is none
FirstUnderscore(s) ==
    IF \E i \in 1..Len(s) : Ch(s, i) = "_"
    THEN CHOOSE i \in 1..Len(s) :
            Ch(s, i) = "_" /\ \A j \in 1..(i - 1) : Ch(s, j) # "_"
    ELSE 0

\* What a pattern "^...$" may take as the whole text: Python's "$" matches at
\* the end of the string and also just before one trailing newline.
DollarBodies(s) ==
    IF Len(s) > 0 /\ Ch(s, Len(s)) = "\n"
    THEN {s, SubSeq(s, 1, Len(s) - 1)}
    ELSE {s}

\* (?P<svc>[A-Z0-9\-]+)_ : the service UID ends at the first "_", which the
\* class excludes
SvcOf(s) == SubSeq(s, 1, FirstUnderscore(s) - 1)
RestOf(s) == SubSeq(s, FirstUnderscore(s) + 1, Len(s))
HasSvc(s) == FirstUnderscore(s) >= 2 /\ AllIn(SvcOf(s), SvcChars)

\* \d{8}T\d{6}d\d{3}
IsTsD(t) ==
    /\ Len(t) = 19
    /\ IsDigits(SubSeq(t, 1, 8), 8)
    /\ Ch(t, 9) = "T"
    /\ IsDigits(SubSeq(t, 10, 15), 6)
    /\ Ch(t, 16) = "d"
    /\ IsDigits(SubSeq(t, 17, 19), 3)

\* \d{8}T\d{6}\d{3}
IsTsPlain(t) ==
    /\ Len(t) = 18
    /\ IsDigits(SubSeq(t, 1, 8), 8)
    /\ Ch(t, 9) = "T"
    /\ IsDigits(SubSeq(t, 10, 18), 9)

NoMatch == [ok |-> FALSE, svc |-> "", ts |-> "", ctr |-> ""]

\* <svc>_\d{8}T\d{6}d\d{3}
StructAdhocBody(b) == HasSvc(b) /\ IsTsD(RestOf(b))
\* stac_structure._ADHOC_RE.match(s): the pattern has no "ctr" group
_ADHOC_RE(s) ==
    IF \E b \in DollarBodies(s) : StructAdhocBody(b)
    THEN LET b == CHOOSE c \in DollarBodies(s) : StructAdhocBody(c)
         IN  [ok |-> TRUE, svc |-> SvcOf(b), ts |-> RestOf(b), ctr |-> ""]
    ELSE NoMatch

\* <svc>_\d{8}
SystematicBody(b) == HasSvc(b) /\ IsDigits(RestOf(b), 8)

\* stac_structure._SYSTEMATIC_DAY_RE.match(s)
_SYSTEMATIC_DAY_RE(s) ==
    IF \E b \in DollarBodies(s) : SystematicBody(b)
    THEN LET b == CHOOSE c \in DollarBodies(s) : SystematicBody(c)
         IN  [ok |-> TRUE, svc |-> SvcOf(b), ts |-> RestOf(b), ctr |-> ""]
    ELSE NoMatch

\* stac_products.SYSTEMATIC_DAY_RE.match(s)
SYSTEMATIC_DAY_RE(s) ==
    IF \E b \in DollarBodies(s) : SystematicBody(b)
    THEN LET b == CHOOSE c \in DollarBodies(s) : SystematicBody(c)
         IN  [ok |-> TRUE, svc |-> SvcOf(b), ts |-> RestOf(b), ctr |-> ""]
    ELSE NoMatch

\* stac_products.ADHOC_RE.match(s) (ID_COUNTER_PATTERN is the same pattern):
\* <svc>_\d{8}T\d{6}\d{3}_\d{6}
CounterBody(b) ==
    /\ HasSvc(b)
    /\ Len(RestOf(b)) = 25
    /\ IsTsPlain(SubSeq(RestOf(b), 1, 18))
    /\ Ch(RestOf(b), 19) = "_"
    /\ IsDigits(SubSeq(RestOf(b), 20, 25), 6)
ADHOC_RE(s) ==
    IF \E b \in DollarBodies(s) : CounterBody(b)
    THEN LET b == CHOOSE c \in DollarBodies(s) : CounterBody(c)
         IN  [ok  |-> TRUE, svc |-> SvcOf(b),
              ts  |-> SubSeq(RestOf(b), 1, 18),
              ctr |-> SubSeq(RestOf(b), 20, 25)]
    ELSE NoMatch
ID_COUNTER_PATTERN(s) == ADHOC_RE(s)

\* str.startswith
StartsWith(s, p) == Len(s) >= Len(p) /\ SubSeq(s, 1, Len(p)) = p

\* stac_structure._id_ok_for_ls_df
_id_ok_for_ls_df(item_id) ==
    IF item_id = "" THEN FALSE
    ELSE IF _ADHOC_RE(item_id).ok
            /\ StartsWith(_ADHOC_RE(item_id).svc, "LS-DF") THEN TRUE
    ELSE IF _SYSTEMATIC_DAY_RE(item_id).ok
            /\ StartsWith(_SYSTEMATIC_DAY_RE(item_id).svc, "LS-DF") THEN TRUE
    ELSE FALSE

\* stac_products._id_ok_for_ls_df
products_id_ok_for_ls_df(item_id) ==
    IF ADHOC_RE(item_id).ok
       /\ StartsWith(ADHOC_RE(item_id).svc, "LS-DF") THEN TRUE
    ELSE IF SYSTEMATIC_DAY_RE(item_id).ok
            /\ StartsWith(SYSTEMATIC_DAY_RE(item_id).svc, "LS-DF") THEN TRUE
    ELSE FALSE

(***************************************************************************)
(* Timestamp tokens (stac_structure.parse_hub_ts).                         *)
(***************************************************************************)
Whitespace == {" ", "\n", "\t"}

\* str.strip()
RECURSIVE Strip(_)
Strip(s) ==
    IF Len(s) > 0 /\ Ch(s, 1) \in Whitespace THEN Strip(Tail(s))
    ELSE IF Len(s) > 0 /\ Ch(s, Len(s)) \in Whitespace
    THEN Strip(SubSeq(s, 1, Len(s) - 1))
    ELSE s

IsLeap(y) == (y % 4 = 0 /\ y % 100 # 0) \/ y % 400 = 0

DaysIn(y, m) ==
    IF m = 2 THEN (IF IsLeap(y) THEN 29 ELSE 28)
    ELSE IF m \in {4, 6, 9, 11} THEN 30 ELSE 31

\* datetime.strptime(base, "%Y%m%dT%H%M%S") succeeds: the 15 characters are
\* YYYYMMDD, "T", HHMMSS, and the fields name a date and a time of day
StrptimeOk(base) ==
    /\ Len(base) = 15
    /\ IsDigits(SubSeq(base, 1, 8), 8)
    /\ Ch(base, 9) = "T"
    /\ IsDigits(SubSeq(base, 10, 15), 6)
    /\ LET y  == ToInt(SubSeq(base, 1, 4))
           mo == ToInt(SubSeq(base, 5, 6))
           d  == ToInt(SubSeq(base, 7, 8))
           h  == ToInt(SubSeq(base, 10, 11))
           mi == ToInt(SubSeq(base, 12, 13))
           sc == ToInt(SubSeq(base, 14, 15))
       IN  /\ y >= 1
           /\ mo \in 1..12
           /\ d \in 1..DaysIn(y, mo)
           /\ h \in 0..23
           /\ mi \in 0..59
           /\ sc \in 0..59

NoTime == [ok |-> FALSE, y |-> 0, mo |-> 0, d |-> 0, h |-> 0, mi |-> 0,
           s |-> 0, ms |-> 0]

\* parse_hub_ts(ts): the UTC instant, or ok = FALSE for ValueError
parse_hub_ts(ts0) ==
    LET ts == Strip(ts0) IN
    IF Len(ts) # 19 \/ Ch(ts, 16) # "d" THEN NoTime
    ELSE IF ~StrptimeOk(SubSeq(ts, 1, 15)) THEN NoTime
    ELSE IF ~IsDigits(SubSeq(ts, 17, 19), 3) THEN NoTime
    ELSE [ok |-> TRUE,
          y  |-> ToInt(SubSeq(ts, 1, 4)),   mo |-> ToInt(SubSeq(ts, 5, 6)),
          d  |-> ToInt(SubSeq(ts, 7, 8)),   h  |-> ToInt(SubSeq(ts, 10, 11)),
          mi |-> ToInt(SubSeq(ts, 12, 13)), s  |-> ToInt(SubSeq(ts, 14, 15)),
          ms |-> ToInt(SubSeq(ts, 17, 19))]

(***************************************************************************)
(* The collection registry (stac_structure.COLLECTIONS): the item keys of  *)
(* each collection id.                                                     *)
(***************************************************************************)
CollectionIds ==
    {"FS-FM", "FS-FT", "FS-HA", "FS-BI", "FS-TM", "LS-LC", "LS-DF", "LS-UA"}

COLLECTIONS(cid) ==
    CASE cid = "FS-FM" -> {"FS-FM-FC-A", "FS-FM-FC-B", "FS-FM-TC", "FS-FM-FF-S1",
                           "FS-FM-FF-S2", "FS-FM-FF-A2", "FS-FM-FF-A1"}
      [] cid = "FS-FT" -> {"FS-FT-FT-00"}
      [] cid = "FS-HA" -> {"FS-HA-HT-B-A2"}
      [] cid = "FS-BI" -> {"FS-BI-SI", "FS-BI-HS", "FS-BI-BT", "FS-BI-TM"}
      [] cid = "FS-TM" -> {"FS-TM-TM-B-A2"}
      [] cid = "LS-LC" -> {"LS-LC-CM-A", "LS-LC-CM-B", "LS-LC-CA-A", "LS-LC-CA-B"}
      [] cid = "LS-DF" -> {"LS-DF-PS-S1", "LS-DF-SB-S1", "LS-DF-IT-S1",
                           "LS-DF-LS-00"}
      [] cid = "LS-UA" -> {"LS-UA-LST-BA1", "LS-UA-AT-BA1", "LS-UA-SUHI-BA1",
                           "LS-UA-UPHI-B", "LS-UA-AQM-B", "LS-UA-AQ-B"}

\* The identifier check of create_stac_structure (COLLECTIONS.get and the
\* membership test that follows it): "ok", or the error it raises.
ValidateItemId(cid, iid) ==
    IF cid \notin CollectionIds THEN "unknown_collection"
    ELSE IF iid \in COLLECTIONS(cid) THEN "ok"
    ELSE IF cid = "LS-DF"
         THEN (IF _id_ok_for_ls_df(iid) THEN "ok" ELSE "invalid_item_id")
         ELSE (IF iid = "" THEN "invalid_item_id" ELSE "ok")

(***************************************************************************)
(* The sequence counter (stac_products.next_counter_for_service).  A       *)
(* catalog tree is the set of the names os.walk meets beneath the root,    *)
(* each a file or a directory.                                             *)
(***************************************************************************)
UpperSeq == "ABCDEFGHIJKLMNOPQRSTUVWXYZ"
LowerSeq == "abcdefghijklmnopqrstuvwxyz"

LowerChar(c) ==
    IF c \in UpperChars
    THEN Ch(LowerSeq, CHOOSE i \in 1..26 : Ch(UpperSeq, i) = c)
    ELSE c

\* str.lower()
RECURSIVE Lower(_)
Lower(s) == IF Len(s) = 0 THEN "" ELSE LowerChar(Ch(s, 1)) \o Lower(Tail(s))

\* os.path.splitext(name): the extension starts at the last dot that follows
\* a character other than a dot
SplitDot(name) ==
    LET dots == {i \in 2..Len(name) :
                    Ch(name, i) = "." /\ \E j \in 1..(i - 1) : Ch(name, j) # "."}
    IN  IF dots = {} THEN 0 ELSE CHOOSE i \in dots : \A j \in dots : j <= i

splitext(name) ==
    IF SplitDot(name) = 0 THEN <<name, "">>
    ELSE <<SubSeq(name, 1, SplitDot(name) - 1),
           SubSeq(name, SplitDot(name), Len(name))>>

Max(S) == CHOOSE m \in S : \A n \in S : n <= m
Min(S) == CHOOSE m \in S : \A n \in S : m <= n

\* the counters next_counter_for_service reads off the names of a tree
CountersSeen(tree, service_uid) ==
    {ToInt(ID_COUNTER_PATTERN(splitext(e.name)[1]).ctr) :
        e \in {f \in tree :
                 /\ ~f.isDir
                 /\ Lower(splitext(f.name)[2]) \in {".json", ".geojson"}
                 /\ ID_COUNTER_PATTERN(splitext(f.name)[1]).ok
                 /\ ID_COUNTER_PATTERN(splitext(f.name)[1]).svc = service_uid}}
    \cup
    {ToInt(ID_COUNTER_PATTERN(e.name).ctr) :
        e \in {f \in tree :
                 /\ f.isDir
                 /\ ID_COUNTER_PATTERN(f.name).ok
                 /\ ID_COUNTER_PATTERN(f.name).svc = service_uid}}

next_counter_for_service(tree, service_uid) ==
    Max(CountersSeen(tree, service_uid) \cup {0}) + 1

\* f"{n:06d}"
DigitSeq == "0123456789"
RECURSIVE Decimal(_)
Decimal(n) ==
    IF n < 10 THEN Ch(DigitSeq, n + 1)
    ELSE Decimal(n \div 10) \o Ch(DigitSeq, (n % 10) + 1)

RECURSIVE ZeroPad(_, _)
ZeroPad(s, width) == IF Len(s) >= width THEN s ELSE ZeroPad("0" \o s, width)

format_counter(n) == ZeroPad(Decimal(n), 6)

(***************************************************************************)
(* Rasters.  A raster is [crs, tf, w, h, dtype]: tf is the affine          *)
(* transform as rasterio gives it, (a, b, c, d, e, f); a file without a    *)
(* geotransform reads as the identity, a file without a CRS as "none".     *)
(***************************************************************************)
NoCrs == "none"
IdentityTransform == <<1, 0, 0, 0, 1, 0>>

\* bool(src.crs)
HasCrs(r) == r.crs # NoCrs
\* not src.transform.is_identity
HasTransform(r) == r.tf # IdentityTransform

\* CRS.to_epsg(): the EPSG code, 0 for None (a CRS no EPSG code names)
to_epsg(crs) ==
    CASE crs = "EPSG:2100" -> 2100
      [] crs = "EPSG:4326" -> 4326
      [] OTHER -> 0

\* target_epsg of create_stac_structure
target_epsg == 2100

\* src.bounds of a north-up or ungeoreferenced raster:
\* (left, bottom, right, top) = (c, f + e*h, c + a*w, f)
Bounds(r) == <<r.tf[3], r.tf[6] + r.tf[5] * r.h, r.tf[3] + r.tf[1] * r.w, r.tf[6]>>

\* The projections, each a shift of the geographic grid: the easting and
\* northing of a CRS are longitude and latitude plus its false origin.
FalseOrigin(crs) ==
    CASE crs = "EPSG:2100" -> 10
      [] crs = "custom" -> 20
      [] OTHER -> 0

\* rasterio.warp.transform_bounds(src_crs, "EPSG:4326", l, b, r, t): the
\* bounds are ordered (min, min, max, max) whatever the raster's row direction
transform_bounds(crs, b) ==
    LET lo(u, v) == IF u <= v THEN u ELSE v
        hi(u, v) == IF u <= v THEN v ELSE u
    IN  <<lo(b[1], b[3]) - FalseOrigin(crs), lo(b[2], b[4]) - FalseOrigin(crs),
          hi(b[1], b[3]) - FalseOrigin(crs), hi(b[2], b[4]) - FalseOrigin(crs)>>

\* ToGdalGeoTransform that passes the affine coefficients in their own order
ToGdalGeoTransform_AffineOrder(t) == <<t[1], t[2], t[3], t[4], t[5], t[6]>>

\* Affine (a, b, c, d, e, f) -> GDAL geotransform (c, a, b, f, d, e)
ToGdalGeoTransform(t) == <<t[3], t[1], t[2], t[6], t[4], t[5]>>
\* GDAL geotransform (c, a, b, f, d, e) -> Affine, as rasterio reads it back
FromGdalGeoTransform(g) == <<g[2], g[3], g[1], g[5], g[6], g[4]>>

\* ref_crs.to_wkt() and the CRS a file with that WKT reads as
CrsToWkt(crs) ==
    CASE crs = "EPSG:2100" -> "PROJCRS[GGRS87 / Greek Grid]"
      [] crs = "EPSG:4326" -> "GEOGCRS[WGS 84]"
      [] crs = "custom" -> "PROJCRS[unnamed]"
      [] OTHER -> ""
WktToCrs(wkt) ==
    CASE wkt = "PROJCRS[GGRS87 / Greek Grid]" -> "EPSG:2100"
      [] wkt = "GEOGCRS[WGS 84]" -> "EPSG:4326"
      [] wkt = "PROJCRS[unnamed]" -> "custom"
      [] OTHER -> NoCrs

\* _apply_georef_via_vrt on a raster: the VRT's geotransform and projection
\* are set from the reference, the pixels (and so the size) are the source's
_apply_georef_via_vrt(r, ref_transform, ref_crs) ==
    [r EXCEPT !.tf  = FromGdalGeoTransform(ToGdalGeoTransform(ref_transform)),
              !.crs = WktToCrs(CrsToWkt(ref_crs))]

\* gdal.Warp(dstSRS = EPSG:2100) then _translate_to_cog: the output is
\* north-up in the target CRS with the source's pixel size, its origin the
\* projected top-left corner; size is the output grid GDAL chose
Warp(r, size) ==
    LET wgs == transform_bounds(r.crs, Bounds(r))
        abs(v) == IF v < 0 THEN -v ELSE v
    IN  [crs |-> "EPSG:2100",
         tf  |-> <<abs(r.tf[1]), 0, wgs[1] + FalseOrigin("EPSG:2100"),
                   0, -abs(r.tf[5]), wgs[4] + FalseOrigin("EPSG:2100")>>,
         w   |-> size[1],
         h   |-> size[2],
         dtype |-> r.dtype]

\* the output grids a warp may produce for a source of w x h pixels: the
\* same grid, or one padded by a row and a column
WarpSizes(r) == {<<r.w, r.h>>, <<r.w + 1, r.h + 1>>}

(***************************************************************************)
(* Files.  A path is [dir, stem, suffix]; a file is [arrays, cog]: the     *)
(* rasters it holds (one for a GeoTIFF, any number for a container) and    *)
(* whether its layout is Cloud-Optimized.                                  *)
(***************************************************************************)
AssetDir == "assets"

P(dir, stem, suffix) == [dir |-> dir, stem |-> stem, suffix |-> suffix]

\* _is_cog(path)
_is_cog(f, path) == f[path].cog

\* _translate_to_cog(src, dest): dest holds src's one raster, tiled with
\* overviews; a source that is not a single raster cannot be translated
CanTranslate(file) == Len(file.arrays) = 1
_translate_to_cog(f, src, dest) ==
    (dest :> [arrays |-> <<f[src].arrays[1]>>, cog |-> TRUE]) @@ f

\* Copy that takes the source away, as a move does
Copy_ByMove(f, src, dest) ==
    [q \in (DOMAIN f \cup {dest}) \ {src} |-> IF q = dest THEN f[src] ELSE f[q]]

\* shutil.copy2(src, dest)
Copy(f, src, dest) == (dest :> f[src]) @@ f
\* shutil.move(src, dest)
Move(f, src, dest) ==
    [q \in (DOMAIN f \cup {dest}) \ {src} |-> IF q = dest THEN f[src] ELSE f[q]]

\* the i-th array of an HDF5 container as a COG of its own
RECURSIVE ExpandH5(_, _, _)
ExpandH5(f, entry, i) ==
    IF i = 0 THEN f
    ELSE (P(AssetDir, entry.stem \o "_sds" \o Decimal(i), ".tif")
            :> [arrays |-> <<f[entry].arrays[i]>>, cog |-> TRUE])
         @@ ExpandH5(f, entry, i - 1)

Expanded(err, out, f) == [err |-> err, out |-> out, fs |-> f]

\* An entry is a Path, [dir, stem, suffix]; a string, [str |-> s]; or an
\* object of another type, [obj |-> v].
IsStr(entry) == "str" \in DOMAIN entry
IsPath(entry) == "suffix" \in DOMAIN entry

\* sub in s
Contains(s, sub) ==
    \E i \in 1..(Len(s) - Len(sub) + 1) : SubSeq(s, i, i + Len(sub) - 1) = sub

\* _is_subdataset_string(s)
_is_subdataset_string(s) ==
    \/ (Contains(s, "HDF5:\"") \/ Contains(s, "NETCDF:\"")) /\ Contains(s, "\"://")
    \/ StartsWith(s, "HDF5:")
    \/ StartsWith(s, "NETCDF:")

\* the character class [A-Za-z0-9._-]
SafeNameChars ==
    UpperChars \cup {LowerChar(c) : c \in UpperChars} \cup DigitChars
    \cup {".", "_", "-"}

\* re.sub(r"[^A-Za-z0-9._-]+", "_", s): each run of other characters
\* becomes one "_"
RECURSIVE SubUnsafe(_, _)
SubUnsafe(s, inRun) ==
    IF Len(s) = 0 THEN ""
    ELSE IF Ch(s, 1) \in SafeNameChars
         THEN Ch(s, 1) \o SubUnsafe(Tail(s), FALSE)
         ELSE (IF inRun THEN "" ELSE "_") \o SubUnsafe(Tail(s), TRUE)

\* str.strip("_")
RECURSIVE StripUnderscores(_)
StripUnderscores(s) ==
    IF Len(s) = 0 THEN ""
    ELSE IF Ch(s, 1) = "_" THEN StripUnderscores(Tail(s))
    ELSE IF Ch(s, Len(s)) = "_" THEN StripUnderscores(SubSeq(s, 1, Len(s) - 1))
    ELSE s

\* s.split('"://', 1)[-1]: what follows the first '"://', all of s without one
AfterScheme(s) ==
    IF Contains(s, "\"://")
    THEN LET i == CHOOSE k \in 1..(Len(s) - 3) :
                     /\ SubSeq(s, k, k + 3) = "\"://"
                     /\ \A j \in 1..(k - 1) : SubSeq(s, j, j + 3) # "\"://"
         IN  SubSeq(s, i + 4, Len(s))
    ELSE s

\* _safe_name_from_sds without the fallback name
_safe_name_from_sds_NoFallback(s) ==
    StripUnderscores(SubUnsafe(AfterScheme(s), FALSE))

\* _safe_name_from_sds(s)
_safe_name_from_sds(s) ==
    LET stem == StripUnderscores(SubUnsafe(AfterScheme(s), FALSE))
    IN  IF stem = "" THEN "asset" ELSE stem

\* Path(s) of a plain string: the directory, and the name split at its suffix
PathOf(s) ==
    LET slashes == {i \in 1..Len(s) : Ch(s, i) = "/"}
        cut  == IF slashes = {} THEN 0 ELSE Max(slashes)
        name == SubSeq(s, cut + 1, Len(s))
    IN  P(SubSeq(s, 1, cut - 1), splitext(name)[1], splitext(name)[2])

\* the container a subdataset string of the model names
SdsContainer(s) ==
    IF StartsWith(s, "HDF5:") THEN P("in", "h", ".h5") ELSE P("in", "v", ".nc")

\* _translate_to_cog(sds, dest): GDAL opens the array the string names, here
\* the first of its container
_translate_sds_to_cog(f, s, dest) ==
    (dest :> [arrays |-> <<f[SdsContainer(s)].arrays[1]>>, cog |-> TRUE]) @@ f

\* lines 270-319: the Path case
ExpandPath(f, e) ==
    IF e \notin DOMAIN f THEN Expanded("FileNotFoundError", <<>>, f)
    ELSE IF Lower(e.suffix) \in {".tif", ".tiff"} THEN
        LET dest == P(AssetDir, e.stem, ".tif")
            tmp  == IF dest = e THEN P(AssetDir, e.stem, ".tmp.tif")
                    ELSE dest
        IN  IF ~_is_cog(f, e)
            THEN IF ~CanTranslate(f[e])
                 THEN Expanded("RuntimeError", <<>>, f)
                 ELSE LET g == _translate_to_cog(f, e, tmp)
                      IN  Expanded("", <<dest>>,
                                   IF tmp # dest THEN Move(g, tmp, dest) ELSE g)
            ELSE Expanded("", <<dest>>,
                          IF dest # e THEN Copy(f, e, dest) ELSE f)
    ELSE IF Lower(e.suffix) \in {".nc", ".netcdf"} THEN
        LET dest == P(AssetDir, e.stem, ".tif")
        IN  IF ~CanTranslate(f[e]) THEN Expanded("RuntimeError", <<>>, f)
            ELSE Expanded("", <<dest>>, _translate_to_cog(f, e, dest))
    ELSE IF Lower(e.suffix) \in {".h5", ".hdf5"} THEN
        LET n == Len(f[e].arrays)
        IN  IF n = 0 THEN Expanded("RuntimeError", <<>>, f)
            ELSE Expanded("",
                    [i \in 1..n |->
                        P(AssetDir, e.stem \o "_sds" \o Decimal(i), ".tif")],
                    ExpandH5(f, e, n))
    ELSE
        LET dest == IF e.dir # AssetDir
                    THEN P(AssetDir, e.stem, e.suffix) ELSE e
        IN  Expanded("", <<dest>>,
                     IF dest # e THEN Copy(f, e, dest) ELSE f)


\* _expand_input_to_cogs(entry, asset_dir) on the file system f: the error
\* raised ("" for none), the rasters returned, and the file system after
_expand_input_to_cogs(f, entry) ==
    IF IsStr(entry) /\ _is_subdataset_string(entry.str)
    THEN LET cog_path == P(AssetDir, _safe_name_from_sds(entry.str), ".tif")
         IN  Expanded("", <<cog_path>>,
                      _translate_sds_to_cog(f, entry.str, cog_path))
    ELSE IF IsStr(entry) THEN ExpandPath(f, PathOf(entry.str))
    ELSE IF IsPath(entry) THEN ExpandPath(f, entry)
    ELSE Expanded("RuntimeError", <<>>, f)

(***************************************************************************)
(* Path arithmetic.  A path is [abs, parts]: whether it is absolute and    *)
(* its components; Path(".") has no parts.                                 *)
(***************************************************************************)
Pth(abs, parts) == [abs |-> abs, parts |-> parts]

\* pathlib's "/" operator: an absolute right operand replaces the left one
PathJoin(p, q) == IF q.abs THEN q ELSE Pth(p.abs, p.parts \o q.parts)

\* os.path.normpath on the parts of an absolute path: ".." drops the
\* component before it and is itself dropped at the root
RECURSIVE NormParts(_, _)
NormParts(done, rest) ==
    IF rest = <<>> THEN done
    ELSE IF Head(rest) = ".."
         THEN NormParts(IF done = <<>> THEN done
                        ELSE SubSeq(done, 1, Len(done) - 1), Tail(rest))
         ELSE IF Head(rest) = "." THEN NormParts(done, Tail(rest))
         ELSE NormParts(Append(done, Head(rest)), Tail(rest))

\* os.path.abspath(p) in working directory wd
abspath(wd, p) == Pth(TRUE, NormParts(<<>>, PathJoin(wd, p).parts))

\* the number of leading components two paths share
RECURSIVE CommonPrefixLen(_, _)
CommonPrefixLen(a, b) ==
    IF a = <<>> \/ b = <<>> \/ Head(a) # Head(b) THEN 0
    ELSE 1 + CommonPrefixLen(Tail(a), Tail(b))

\* os.path.relpath(path, start) in working directory wd
relpath(wd, path, start) ==
    LET path_list  == abspath(wd, path).parts
        start_list == abspath(wd, start).parts
        i == CommonPrefixLen(start_list, path_list)
        rel_list == [k \in 1..(Len(start_list) - i) |-> ".."]
                    \o SubSeq(path_list, i + 1, Len(path_list))
    IN  IF rel_list = <<>> THEN Pth(FALSE, <<".">>) ELSE Pth(FALSE, rel_list)

(***************************************************************************)
(* Bounds of the model and the inputs it draws.                            *)
(***************************************************************************)
\* the most input entries of one call
MaxEntries == 2

Raster(crs, tf, w, h) ==
    [crs |-> crs, tf |-> tf, w |-> w, h |-> h, dtype |-> "float32"]
Tiff(r, cog) == [arrays |-> <<r>>, cog |-> cog]

\* The input files of the model: georeferenced rasters in the working CRS
\* (a, b), in another CRS (c, k), rasters that lack a CRS or a transform (n, m,
\* t, u), a raster that is not a GeoTIFF (d), a GeoTIFF named thumbnail, a
\* NetCDF file (v), a GeoTIFF that already lies in the asset directory (z)
\* and two HDF5 containers.
InputFiles ==
    (P("in", "a", ".tif") :> Tiff(Raster("EPSG:2100", <<1, 0, 10, 0, -1, 11>>, 1, 1), TRUE))
 @@ (P("in", "b", ".tif") :> Tiff(Raster("EPSG:2100", <<1, 0, 12, 0, -1, 13>>, 1, 1), FALSE))
 @@ (P("in", "c", ".tif") :> Tiff(Raster("EPSG:4326", <<1, 0, 4, 0, -1, 2>>, 1, 1), TRUE))
 @@ (P("in", "k", ".tif") :> Tiff(Raster("custom", <<1, 0, 21, 0, -1, 25>>, 2, 1), TRUE))
 @@ (P("in", "n", ".tif") :> Tiff(Raster(NoCrs, IdentityTransform, 1, 1), TRUE))
 @@ (P("in", "m", ".tif") :> Tiff(Raster(NoCrs, IdentityTransform, 2, 1), FALSE))
 @@ (P("in", "t", ".tif") :> Tiff(Raster("EPSG:4326", IdentityTransform, 1, 1), TRUE))
 @@ (P("in", "u", ".tif") :> Tiff(Raster(NoCrs, <<1, 0, 4, 0, -1, 2>>, 1, 1), TRUE))
 @@ (P("in", "d", ".img") :> Tiff(Raster("EPSG:2100", <<1, 0, 14, 0, -1, 15>>, 1, 1), FALSE))
 @@ (P("in", "thumbnail", ".tif")
        :> Tiff(Raster("EPSG:2100", <<1, 0, 16, 0, -1, 17>>, 1, 1), TRUE))
 @@ (P("in", "v", ".nc") :> Tiff(Raster("EPSG:4326", <<1, 0, 6, 0, -1, 5>>, 1, 1), FALSE))
 @@ (P(AssetDir, "z", ".tif") :> Tiff(Raster("EPSG:4326", <<1, 0, 8, 0, -1, 7>>, 1, 1), TRUE))
 @@ (P("in", "h", ".h5") :>
        [arrays |-> <<Raster("EPSG:4326", <<1, 0, 0, 0, -1, 3>>, 2, 1),
                      Raster(NoCrs, IdentityTransform, 2, 1)>>,
         cog |-> FALSE])
 @@ (P("in", "e", ".h5") :> [arrays |-> <<>>, cog |-> FALSE])

\* the entries a call may name: the input files and one path that is missing
EntryPool == DOMAIN InputFiles \cup {P("in", "x", ".tif")}

\* the collection ids a call may name: two of the registry, one unknown
CallCollections == {"LS-DF", "FS-FM", "XX-YY"}

\* the item ids a call may name
CallItemIds ==
    {"LS-DF-SB-S1_20251217T144338d086",
     "LS-DF-SB-S1_20251217T144338d086_000005",
     "LS-DF-SB-S1_20251217T144338086_000005",
     "LS-DF-SB-S1_20251217",
     "LS-DF-SB-S1_20251317T144338d086",
     "LS-DF-SB-S1",
     "FS-FM-TC_20251217T144338d086",
     "FS-FM-TC_20251217",
     "ls-df_20251217",
     ""}

SeqsUpTo(S, n) == UNION {[1..k -> S] : k \in 0..n}

(***************************************************************************)
(* create_stac_structure as a state machine.                               *)
(***************************************************************************)
VARIABLES
    collection_id,  \* argument
    item_id,        \* argument
    data,           \* argument: the input entries, in order
    fs,             \* the files on disk: path -> file
    dirs,           \* the directories the call has created
    pc,             \* the position of the call
    err,            \* the exception the call ended with, "" for none
    id,             \* svc, ts, ictr, tstmp of lines 444-452
    ei,             \* index of the entry being processed
    expanded,       \* rasters of the current entry still to process
    loc,            \* has_crs, has_transform, width, height, current_crs, current_transform
    ref,            \* ref_transform, ref_crs, ref_size
    asset_paths,    \* the finalized rasters, in order
    bbox,           \* the running union (left, bottom, right, top)
    folded,         \* the wgs84_bounds of the rasters finalized so far, in order
    item,           \* the item object once assembled
    written,        \* the catalog documents the call has written
    verdicts,       \* what each identifier validator returned for item_id
    tree,           \* the names beneath a catalog root: [name, isDir]
    service_uid,    \* argument of next_counter_for_service
    counter,        \* what next_counter_for_service returned, 0 before the call
    output_dir,     \* argument: the output root, as Path(output_dir)
    cwd,            \* the working directory of the process
    links,          \* the links of the collection and of the item: [rel, href]
    disk,           \* the absolute paths of the catalog files written
    thumb,          \* a call of _write_thumbnail_from_raster: source and result
    clock,          \* a call of utc_timestamp_millis: argument, time of day, token
    cli,            \* a run of stac_products.main: arguments and locals
    pipe            \* a run of SBAS.py or of run_pipeline.py

vars == <<collection_id, item_id, data, fs, dirs, pc, err, id, ei, expanded,
          loc, ref, asset_paths, bbox, folded, item, written, verdicts, tree,
          service_uid, counter, output_dir, cwd, links, disk, thumb,
          clock, cli, pipe>>

\* the state of the link bookkeeping and of the thumbnail writer
linkVars == <<output_dir, cwd, links, disk, thumb, clock, cli, pipe>>

\* the state of the identifier and counter operations
idVars == <<verdicts, tree, service_uid, counter>>
\* the state of a create_stac_structure call other than its arguments
callVars == <<data, fs, dirs, pc, err, id, ei, expanded, loc, ref, asset_paths,
              bbox, folded, item, written>>

NoId == [svc |-> "", ts |-> "", ictr |-> 0, tstmp |-> NoTime]
\* None for a transform, a size or a bbox; NoCrs is None for a CRS
None == <<>>
NoRef == [transform |-> None, crs |-> NoCrs, size |-> None]
NoLoc == [has_crs |-> FALSE, has_transform |-> FALSE, width |-> 0, height |-> 0,
          current_crs |-> NoCrs, current_transform |-> IdentityTransform]
NoItem == [built |-> FALSE]
NoVerdicts == [structure |-> "unset", products |-> "unset", collection |-> "unset"]

NoLinks == [collection |-> <<>>, item |-> <<>>]
\* src.nodata: unset (None), a number, or the floating-point NaN
NoData == [set |-> FALSE, nan |-> FALSE, value |-> 0]
NoThumb == [src |-> <<>>, nodata |-> NoData, rgb |-> <<>>, out |-> <<>>,
            image |-> <<>>]
\* the link bookkeeping when the links are not followed: the output root is
\* the working directory
NoLinkState ==
    /\ output_dir = Pth(FALSE, <<>>)
    /\ cwd = Pth(TRUE, <<"home", "u">>)
    /\ links = NoLinks
    /\ disk = {}
    /\ thumb = NoThumb
    /\ clock = None
    /\ cli = None
    /\ pipe = None

Init ==
    /\ NoLinkState
    /\ collection_id \in CallCollections
    /\ item_id \in CallItemIds
    /\ data \in SeqsUpTo(EntryPool, MaxEntries)
    /\ fs = InputFiles
    /\ dirs = {}
    /\ pc = "parse_id"
    /\ err = ""
    /\ id = NoId
    /\ ei = 1
    /\ expanded = <<>>
    /\ loc = NoLoc
    /\ ref = NoRef
    /\ asset_paths = <<>>
    /\ bbox = None
    /\ folded = <<>>
    /\ item = NoItem
    /\ written = {}
    /\ verdicts = NoVerdicts
    /\ tree = {}
    /\ service_uid = ""
    /\ counter = 0

\* the call ends with exception e
Raise(e) == pc' = "error" /\ err' = e

\* lines 443-452: the ad-hoc pattern is matched and its groups read.  The
\* pattern has no "ctr" group, so the try block always raises and the except
\* block runs: it raises AttributeError itself when the id did not match.
ParseId ==
    /\ pc = "parse_id"
    /\ LET m == _ADHOC_RE(item_id) IN
       IF ~m.ok THEN Raise("AttributeError") /\ UNCHANGED id
       ELSE IF ~parse_hub_ts(m.ts).ok THEN Raise("ValueError") /\ UNCHANGED id
       ELSE /\ id' = [svc |-> m.svc, ts |-> m.ts, ictr |-> 1,
                      tstmp |-> parse_hub_ts(m.ts)]
            /\ pc' = "validate"
            /\ err' = err
    /\ UNCHANGED <<collection_id, item_id, data, fs, dirs, ei, expanded, loc,
                   ref, asset_paths, bbox, folded, item, written,
                   idVars, linkVars>>

\* lines 454-469
Validate ==
    /\ pc = "validate"
    /\ IF ValidateItemId(collection_id, item_id) = "ok"
       THEN pc' = "prepare" /\ err' = err
       ELSE Raise("ValueError")
    /\ UNCHANGED <<collection_id, item_id, data, fs, dirs, id, ei, expanded,
                   loc, ref, asset_paths, bbox, folded, item, written,
                   idVars, linkVars>>

\* InitialBbox that starts the union from the whole globe
InitialBbox_World == <<-180, -90, 180, 90>>

\* line 497: bbox starts as None
InitialBbox == None

\* lines 471-502: the asset directory is created and the loop state set up
Prepare ==
    /\ pc = "prepare"
    /\ dirs' = dirs \cup {AssetDir}
    /\ asset_paths' = <<>>
    /\ bbox' = InitialBbox
    /\ ref' = NoRef
    /\ pc' = "expand"
    /\ UNCHANGED <<collection_id, item_id, data, fs, err, id, ei, expanded,
                   loc, folded, item, written, idVars, linkVars>>

\* the raster a GeoTIFF holds, as rasterio.open(dest) reads it
RasterOf(f, path) == f[path].arrays[1]
Readable(f, path) == path \in DOMAIN f /\ Len(f[path].arrays) >= 1

\* LoopDone that leaves the loop one entry early
LoopDone_OneEarly(i, entries) ==
    i > Len(entries) \/ (i = Len(entries) /\ i > 1)

\* the loop "for entry in entries" has no entry left
LoopDone(i, entries) == i > Len(entries)

\* line 506: the next entry is expanded, or the loop ends
Expand ==
    /\ pc = "expand"
    /\ IF LoopDone(ei, data)
       THEN /\ pc' = "assemble"
            /\ UNCHANGED <<fs, err, expanded>>
       ELSE LET res == _expand_input_to_cogs(fs, data[ei]) IN
            IF res.err # ""
            THEN Raise(res.err) /\ UNCHANGED <<fs, expanded>>
            ELSE /\ fs' = res.fs
                 /\ expanded' = res.out
                 /\ pc' = "reconcile"
                 /\ err' = err
    /\ UNCHANGED <<collection_id, item_id, data, dirs, id, ei, loc, ref,
                   asset_paths, bbox, folded, item, written,
                   idVars, linkVars>>

\* SizeMatches without the comparison: any raster takes the reference
SizeMatches_NoCheck(width, height, ref_size) == TRUE

\* line 523: the raster has the reference's pixel dimensions
SizeMatches(width, height, ref_size) == <<width, height>> = ref_size

\* lines 519-521: a reference georeference has been captured
HaveReference(rf) == rf.transform # None /\ rf.crs # NoCrs /\ rf.size # None

\* lines 508-535: the raster is inspected and, when it lacks a CRS or a
\* transform, given the reference's if there is one of its size
Reconcile ==
    /\ pc = "reconcile"
    /\ LET dest == Head(expanded) IN
       IF ~Readable(fs, dest)
       THEN Raise("RasterioIOError") /\ UNCHANGED <<fs, loc>>
       ELSE
       LET r == RasterOf(fs, dest)
           seen == [has_crs |-> HasCrs(r), has_transform |-> HasTransform(r),
                    width |-> r.w, height |-> r.h,
                    current_crs |-> r.crs, current_transform |-> r.tf]
       IN  IF ~(seen.has_crs /\ seen.has_transform) /\ HaveReference(ref)
           THEN IF SizeMatches(seen.width, seen.height, ref.size)
                THEN LET fixed == _apply_georef_via_vrt(r, ref.transform, ref.crs)
                     IN  /\ fs' = (dest :> [arrays |-> <<fixed>>, cog |-> TRUE]) @@ fs
                         /\ loc' = [seen EXCEPT
                                      !.has_crs = HasCrs(fixed),
                                      !.has_transform = HasTransform(fixed),
                                      !.current_crs = fixed.crs,
                                      !.current_transform = fixed.tf]
                         /\ pc' = "enforce"
                         /\ err' = err
                ELSE Raise("RuntimeError") /\ UNCHANGED <<fs, loc>>
           ELSE /\ loc' = seen
                /\ pc' = "enforce"
                /\ UNCHANGED <<fs, err>>
    /\ UNCHANGED <<collection_id, item_id, data, dirs, id, ei, expanded, ref,
                   asset_paths, bbox, folded, item, written,
                   idVars, linkVars>>

\* lines 537-548: georeferencing must be present by now; the first raster to
\* get here becomes the reference
Enforce ==
    /\ pc = "enforce"
    /\ IF ~(loc.has_crs /\ loc.has_transform)
       THEN Raise("RuntimeError") /\ UNCHANGED ref
       ELSE /\ ref' = IF ref.transform = None /\ loc.has_crs /\ loc.has_transform
                      THEN [transform |-> loc.current_transform,
                            crs |-> loc.current_crs,
                            size |-> <<loc.width, loc.height>>]
                      ELSE ref
            /\ pc' = "reproject"
            /\ err' = err
    /\ UNCHANGED <<collection_id, item_id, data, fs, dirs, id, ei, expanded,
                   loc, asset_paths, bbox, folded, item, written,
                   idVars, linkVars>>

\* NeedsReprojection that lets a CRS without an EPSG code through
NeedsReprojection_KnownCodeOnly(current_crs) ==
    current_crs # NoCrs /\ to_epsg(current_crs) # 0
                        /\ to_epsg(current_crs) # target_epsg

\* lines 551-552: the raster is not in the working CRS
NeedsReprojection(current_crs) ==
    (IF current_crs # NoCrs THEN to_epsg(current_crs) ELSE 0) # target_epsg

\* RecaptureReference that takes the reference again after every reprojection
RecaptureReference_Always(rf) == TRUE

\* lines 585-586: the reference is taken from the reprojected file
RecaptureReference(rf) == rf.size = None

\* lines 550-590: a raster not in EPSG:2100 is warped and replaced
Reproject ==
    /\ pc = "reproject"
    /\ LET dest == Head(expanded) IN
       IF NeedsReprojection(loc.current_crs)
       THEN \E size \in WarpSizes(RasterOf(fs, dest)) :
              LET out == Warp(RasterOf(fs, dest), size) IN
              /\ fs' = (dest :> [arrays |-> <<out>>, cog |-> TRUE]) @@ fs
              /\ loc' = [has_crs |-> HasCrs(out), has_transform |-> HasTransform(out),
                         width |-> out.w, height |-> out.h,
                         current_crs |-> out.crs, current_transform |-> out.tf]
              /\ ref' = IF RecaptureReference(ref)
                        THEN [transform |-> out.tf, crs |-> out.crs,
                              size |-> <<out.w, out.h>>]
                        ELSE ref
       ELSE UNCHANGED <<fs, loc, ref>>
    /\ pc' = "fold"
    /\ UNCHANGED <<collection_id, item_id, data, dirs, err, id, ei, expanded,
                   asset_paths, bbox, folded, item, written,
                   idVars, linkVars>>

\* UnionBbox that keeps the seed's right and top edges
UnionBbox_SeedMax(box, wgs84_bounds) ==
    IF box = None
    THEN <<wgs84_bounds[1], wgs84_bounds[2], wgs84_bounds[3], wgs84_bounds[4]>>
    ELSE <<IF box[1] <= wgs84_bounds[1] THEN box[1] ELSE wgs84_bounds[1],
           IF box[2] <= wgs84_bounds[2] THEN box[2] ELSE wgs84_bounds[2],
           box[3],
           box[4]>>

\* lines 607-620: the running union of the assets' EPSG:4326 bounds
UnionBbox(box, wgs84_bounds) ==
    IF box = None
    THEN <<wgs84_bounds[1], wgs84_bounds[2], wgs84_bounds[3], wgs84_bounds[4]>>
    ELSE <<IF box[1] <= wgs84_bounds[1] THEN box[1] ELSE wgs84_bounds[1],
           IF box[2] <= wgs84_bounds[2] THEN box[2] ELSE wgs84_bounds[2],
           IF box[3] >= wgs84_bounds[3] THEN box[3] ELSE wgs84_bounds[3],
           IF box[4] >= wgs84_bounds[4] THEN box[4] ELSE wgs84_bounds[4]>>

\* Wgs84Bounds that takes src.bounds as they are, in the CRS of the file
Wgs84Bounds_Stored(f, path) == Bounds(RasterOf(f, path))

\* lines 594-604: the EPSG:4326 bounds of the file at path
Wgs84Bounds(f, path) ==
    transform_bounds(RasterOf(f, path).crs, Bounds(RasterOf(f, path)))

\* lines 592-620: the raster is finalized and folded into the bbox
Fold ==
    /\ pc = "fold"
    /\ LET dest == Head(expanded) IN
       /\ asset_paths' = Append(asset_paths, dest)
       /\ bbox' = UnionBbox(bbox, Wgs84Bounds(fs, dest))
       /\ folded' = Append(folded, Wgs84Bounds(fs, dest))
    /\ expanded' = Tail(expanded)
    /\ IF Tail(expanded) = <<>>
       THEN ei' = ei + 1 /\ pc' = "expand"
       ELSE ei' = ei /\ pc' = "reconcile"
    /\ UNCHANGED <<collection_id, item_id, data, fs, dirs, err, id, loc, ref,
                   item, written, idVars, linkVars>>

\* (x + y) / 2.0 as an exact fraction in lowest terms
Midpoint(x, y) ==
    IF (x + y) % 2 = 0 THEN [num |-> (x + y) \div 2, den |-> 1]
    ELSE [num |-> x + y, den |-> 2]

\* lines 625-636: the closed ring of the bbox, (lon, lat) pairs
Geometry(box) ==
    <<<<box[1], box[2]>>, <<box[1], box[4]>>, <<box[3], box[4]>>,
      <<box[3], box[2]>>, <<box[1], box[2]>>>>

\* lines 660-664
Centroid(box) ==
    [lat |-> Midpoint(box[2], box[4]), lon |-> Midpoint(box[1], box[3])]

ThumbnailPath == P(AssetDir, "thumbnail", ".jpg")

\* lines 690-692: the first asset with a GeoTIFF suffix
FirstRaster(paths) ==
    LET tifs == {i \in 1..Len(paths) : Lower(paths[i].suffix) \in {".tif", ".tiff"}}
    IN  IF tifs = {} THEN 0 ELSE Min(tifs)

\* lines 719-724: the media type of an asset, "" for None
MediaTypeOf(suffix) ==
    IF suffix \in {".tif", ".tiff"} THEN "image/tiff; application=geotiff"
    ELSE IF suffix \in {".nc", ".netcdf"} THEN "application/x-netcdf"
    ELSE ""

\* line 726, for a call without asset_name
AssetKey(path) == path.stem

\* lines 744 and 751: the asset is published as a continuous raster
IsRasterAsset(path) ==
    Lower(path.suffix) \in {".tif", ".tiff"} /\ AssetKey(path) # "thumbnail"

\* line 748: f"{svc}_{ts}_{asset_code}_{ictr:04d}"
ProductId(svc, ts, asset_code, ictr) ==
    svc \o "_" \o ts \o "_" \o asset_code \o "_" \o ZeroPad(Decimal(ictr), 4)

\* lines 751-787: the projection and raster fields of a raster asset
ProjFields(r) ==
    LET abs(v) == IF v < 0 THEN -v ELSE v
    IN  [shape |-> <<r.h, r.w>>,
         bbox |-> Bounds(r),
         transform |-> r.tf,
         bands |-> <<[data_type |-> r.dtype, sampling |-> "area",
                      spatial_resolution |-> Midpoint(abs(r.tf[1]), abs(r.tf[5]))]>>,
         code |-> "EPSG:2100"]
NoProj == [code |-> ""]

\* lines 717-787: the asset object built for one finalized raster
DataAsset(f, path, ident) ==
    [href |-> path,
     media_type |-> MediaTypeOf(Lower(path.suffix)),
     roles |-> <<"data">>,
     product_id |-> ProductId(ident.svc, ident.ts,
                              IF IsRasterAsset(path) THEN "RAS-CNT" ELSE "NON-GEO",
                              ident.ictr),
     proj |-> IF IsRasterAsset(path) THEN ProjFields(RasterOf(f, path))
              ELSE NoProj]

\* lines 698-705: the asset object of the thumbnail
ThumbnailAsset ==
    [href |-> ThumbnailPath, media_type |-> "image/jpeg",
     roles |-> <<"thumbnail">>, product_id |-> "", proj |-> NoProj]

\* lines 717-789: item.add_asset(key, asset) for each finalized raster in
\* order; assets is a dict, so a key added twice keeps the later asset
RECURSIVE AddAssets(_, _, _, _)
AddAssets(assets, f, paths, ident) ==
    IF paths = <<>> THEN assets
    ELSE AddAssets((AssetKey(Head(paths)) :> DataAsset(f, Head(paths), ident))
                       @@ assets,
                   f, Tail(paths), ident)

\* lines 622-809: no asset is an error; otherwise the item is assembled, the
\* thumbnail written, the assets added and the item directory created
Assemble ==
    /\ pc = "assemble"
    /\ IF bbox = None
       THEN Raise("ValueError") /\ UNCHANGED <<fs, dirs, item>>
       ELSE LET first_raster == FirstRaster(asset_paths)
                with_thumb == IF first_raster # 0
                              THEN ("thumbnail" :> ThumbnailAsset) ELSE <<>>
            IN
            /\ item' = [built |-> TRUE, id |-> item_id, bbox |-> bbox,
                        geometry |-> Geometry(bbox), datetime |-> id.tstmp,
                        centroid |-> Centroid(bbox),
                        thumbnail_of |-> first_raster,
                        preview |-> IF first_raster # 0
                                    THEN <<ThumbnailPath>> ELSE <<>>,
                        assets |-> AddAssets(with_thumb, fs, asset_paths, id)]
            /\ fs' = IF first_raster # 0
                     THEN (ThumbnailPath :> [arrays |-> <<>>, cog |-> FALSE]) @@ fs
                     ELSE fs
            /\ dirs' = dirs \cup {"items"}
            /\ pc' = "write_collection"
            /\ err' = err
    /\ UNCHANGED <<collection_id, item_id, data, id, ei, expanded, loc, ref,
                   asset_paths, bbox, folded, written,
                   idVars, linkVars>>

\* line 824: collection_path.write_text, which the file system may refuse
WriteCollection ==
    /\ pc = "write_collection"
    /\ \/ /\ written' = written \cup {"collection.json"}
          /\ pc' = "write_item"
          /\ err' = err
       \/ Raise("OSError") /\ UNCHANGED written
    /\ UNCHANGED <<collection_id, item_id, data, fs, dirs, id, ei, expanded,
                   loc, ref, asset_paths, bbox, folded, item,
                   idVars, linkVars>>

\* line 825: item_path.write_text, which the file system may refuse
WriteItem ==
    /\ pc = "write_item"
    /\ \/ /\ written' = written \cup {"item.json"}
          /\ pc' = "done"
          /\ err' = err
       \/ Raise("OSError") /\ UNCHANGED written
    /\ UNCHANGED <<collection_id, item_id, data, fs, dirs, id, ei, expanded,
                   loc, ref, asset_paths, bbox, folded, item,
                   idVars, linkVars>>

Next ==
    \/ ParseId
    \/ Validate
    \/ Prepare
    \/ Expand
    \/ Reconcile
    \/ Enforce
    \/ Reproject
    \/ Fold
    \/ Assemble
    \/ WriteCollection
    \/ WriteItem

Spec == Init /\ [][Next]_vars

(***************************************************************************)
(* The identifier validators applied to an item id (specification SpecId). *)
(***************************************************************************)
\* the item ids the validators are applied to
IdPool ==
    CallItemIds \cup
    {"LS-DFX_20251217T144338d086",
     "LS-DF-SB-S1_20251217T144338d086\n",
     "LS-DF-SB-S1_20251217\n",
     "FS-FM-TC_20251217T144338d086_000005",
     "LS-DF-SB-S1_20251217T144338d08",
     "LS-DF-SB-S1_2025121",
     "LS-DF-SB-S1_20251217T144338x086",
     "FS-FM-TC",
     "_20251217"}

\* the variables of a create_stac_structure call, when no call is made
NoCall ==
    /\ data = <<>>
    /\ fs = InputFiles
    /\ dirs = {}
    /\ pc = "idle"
    /\ err = ""
    /\ id = NoId
    /\ ei = 1
    /\ expanded = <<>>
    /\ loc = NoLoc
    /\ ref = NoRef
    /\ asset_paths = <<>>
    /\ bbox = None
    /\ folded = <<>>
    /\ item = NoItem
    /\ written = {}

InitId ==
    /\ NoLinkState
    /\ collection_id \in CollectionIds \cup {"XX-YY"}
    /\ item_id \in IdPool
    /\ verdicts = NoVerdicts
    /\ tree = {}
    /\ service_uid = ""
    /\ counter = 0
    /\ NoCall

Verdict(b) == IF b THEN "accept" ELSE "reject"

\* stac_structure._id_ok_for_ls_df(item_id)
CheckStructure ==
    /\ verdicts.structure = "unset"
    /\ verdicts' = [verdicts EXCEPT !.structure = Verdict(_id_ok_for_ls_df(item_id))]
    /\ UNCHANGED <<collection_id, item_id, tree, service_uid, counter, callVars,
                   linkVars>>

\* stac_products._id_ok_for_ls_df(item_id)
CheckProducts ==
    /\ verdicts.products = "unset"
    /\ verdicts' = [verdicts EXCEPT
                      !.products = Verdict(products_id_ok_for_ls_df(item_id))]
    /\ UNCHANGED <<collection_id, item_id, tree, service_uid, counter, callVars,
                   linkVars>>

\* the identifier check of create_stac_structure, lines 454-469
CheckCollection ==
    /\ verdicts.collection = "unset"
    /\ verdicts' = [verdicts EXCEPT
                      !.collection =
                          Verdict(ValidateItemId(collection_id, item_id) = "ok")]
    /\ UNCHANGED <<collection_id, item_id, tree, service_uid, counter, callVars,
                   linkVars>>

NextId == CheckStructure \/ CheckProducts \/ CheckCollection

SpecId == InitId /\ [][NextId]_vars

(***************************************************************************)
(* next_counter_for_service applied to a catalog tree (SpecCounter).       *)
(***************************************************************************)
Dir(name) == [name |-> name, isDir |-> TRUE]
File(name) == [name |-> name, isDir |-> FALSE]

\* the names a catalog tree of the model may hold
NamePool ==
    {Dir("LS-DF-SB-S1_20251217T144338d086_000001"),
     Dir("LS-DF-SB-S1_20251217T144339d086_000002"),
     File("LS-DF-SB-S1_20251217T144340d086_000005.json"),
     File("XX-YY_20251217T144338d086_000009.json"),
     Dir("LS-DF-SB-S1_20251217T144338086_000003"),
     File("LS-DF-SB-S1_20251217T144339086_000004.GeoJSON"),
     File("XX-YY_20251217T144338086_000007.json"),
     File("LS-DF-SB-S1_20251217T144338086_000008.txt"),
     File("collection.json")}

InitCounter ==
    /\ NoLinkState
    /\ tree \in SUBSET NamePool
    /\ service_uid \in {"LS-DF-SB-S1", "XX-YY"}
    /\ counter = 0
    /\ collection_id = "LS-DF"
    /\ item_id = ""
    /\ verdicts = NoVerdicts
    /\ NoCall

\* ctr = next_counter_for_service(output_dir, service_uid)
Scan ==
    /\ counter = 0
    /\ counter' = next_counter_for_service(tree, service_uid)
    /\ UNCHANGED <<collection_id, item_id, verdicts, tree, service_uid, callVars,
                   linkVars>>

NextCounter == Scan

SpecCounter == InitCounter /\ [][NextCounter]_vars

(***************************************************************************)
(* _expand_input_to_cogs applied to one entry (specification SpecExpand).  *)
(***************************************************************************)
\* the longest subdataset name of the model
MaxSdsName == 3

\* the characters subdataset names are made of
SdsNameChars == {"a", "/", " ", "_", ".", "-"}

RECURSIVE StringsUpTo(_, _)
StringsUpTo(chars, n) ==
    IF n = 0 THEN {""}
    ELSE StringsUpTo(chars, n - 1)
         \cup {c \o t : c \in chars, t \in StringsUpTo(chars, n - 1)}

\* the forms of subdataset string: quoted HDF5 and NetCDF, and unquoted HDF5
SdsPrefixes == {"HDF5:\"in/h.h5\"://", "NETCDF:\"in/v.nc\"://", "HDF5:in/h.h5:"}

\* the entries _expand_input_to_cogs is applied to: the paths of the model,
\* plain strings, subdataset strings and objects of other types
ExpandEntries ==
    EntryPool
    \cup {[str |-> t] : t \in {"in/a.tif", "in/b.tif", "in/x.tif", "in/h.h5",
                                "in/v.nc", "in/d.img"}}
    \cup {[str |-> pre \o name] :
             pre \in SdsPrefixes, name \in StringsUpTo(SdsNameChars, MaxSdsName)}
    \cup {[obj |-> "int"], [obj |-> "bytes"], [obj |-> "None"]}

InitExpand ==
    /\ NoLinkState
    /\ data \in {<<e>> : e \in ExpandEntries}
    /\ fs = InputFiles
    /\ pc = "call"
    /\ collection_id = "LS-DF"
    /\ item_id = ""
    /\ dirs = {}
    /\ err = ""
    /\ id = NoId
    /\ ei = 1
    /\ expanded = <<>>
    /\ loc = NoLoc
    /\ ref = NoRef
    /\ asset_paths = <<>>
    /\ bbox = None
    /\ folded = <<>>
    /\ item = NoItem
    /\ written = {}
    /\ verdicts = NoVerdicts
    /\ tree = {}
    /\ service_uid = ""
    /\ counter = 0

\* out = _expand_input_to_cogs(entry, asset_dir)
ExpandOne ==
    /\ pc = "call"
    /\ LET res == _expand_input_to_cogs(fs, data[1]) IN
       /\ fs' = res.fs
       /\ expanded' = res.out
       /\ err' = res.err
       /\ pc' = IF res.err = "" THEN "returned" ELSE "raised"
    /\ UNCHANGED <<collection_id, item_id, data, dirs, id, ei, loc, ref,
                   asset_paths, bbox, folded, item, written, idVars, linkVars>>

NextExpand == ExpandOne

SpecExpand == InitExpand /\ [][NextExpand]_vars

(***************************************************************************)
(* The links of the two documents (specification SpecLinks): lines 689-714 *)
(* and 800-825 of create_stac_structure for an item whose rasters are      *)
(* finalized, under an output root and a working directory.                *)
(***************************************************************************)
\* the output roots and working directories of the model
OutputDirs ==
    {Pth(FALSE, <<>>), Pth(FALSE, <<"out">>), Pth(FALSE, <<"..", "out">>),
     Pth(TRUE, <<"srv", "out">>), Pth(TRUE, <<"home", "u">>)}
WorkingDirs == {Pth(TRUE, <<>>), Pth(TRUE, <<"home">>), Pth(TRUE, <<"home", "u">>)}

\* the asset lists of the model: one with a GeoTIFF, one without
LinkAssetLists == {<<P(AssetDir, "a", ".tif")>>, <<P(AssetDir, "d", ".img")>>}

Rel(parts) == Pth(FALSE, parts)
Link(rel, href) == [rel |-> rel, href |-> href]

\* line 694
thumb_path == PathJoin(output_dir,
                       Rel(<<"assets", collection_id, item_id, "thumbnail.jpg">>))
\* line 472
items_dir == PathJoin(output_dir, Rel(<<"items", collection_id, item_id>>))
\* line 801
collection_dir == PathJoin(output_dir, Rel(<<"items", collection_id>>))
\* line 802
collection_path == PathJoin(collection_dir, Rel(<<"collection.json">>))
\* line 803
item_path == PathJoin(items_dir, Rel(<<item_id \o ".json">>))

InitLinks ==
    /\ output_dir \in OutputDirs
    /\ cwd \in WorkingDirs
    /\ collection_id \in {"LS-DF", "FS-FM"}
    /\ item_id \in {"LS-DF-SB-S1_20251217T144338d086",
                     "FS-FM-TC_20251217T144338d086"}
    /\ asset_paths \in LinkAssetLists
    /\ links = NoLinks
    /\ disk = {}
    /\ thumb = NoThumb
    /\ clock = None
    /\ cli = None
    /\ pipe = None
    /\ pc = "add_thumbnail"
    /\ data = <<>>
    /\ fs = InputFiles
    /\ dirs = {}
    /\ err = ""
    /\ id = NoId
    /\ ei = 1
    /\ expanded = <<>>
    /\ loc = NoLoc
    /\ ref = NoRef
    /\ bbox = None
    /\ folded = <<>>
    /\ item = NoItem
    /\ written = {}
    /\ verdicts = NoVerdicts
    /\ tree = {}
    /\ service_uid = ""
    /\ counter = 0

\* what the link steps leave alone
linkFrame == <<collection_id, item_id, data, fs, dirs, err, id, ei, expanded,
               loc, ref, asset_paths, bbox, folded, item, written, idVars,
               output_dir, cwd, thumb, clock, cli, pipe>>

\* lines 689-714: the thumbnail is written under the output root and the
\* item gets a "preview" link whose target is rel_thumb, the thumbnail's
\* path relative to the output root
AddThumbnail ==
    /\ pc = "add_thumbnail"
    /\ IF FirstRaster(asset_paths) # 0
       THEN LET rel_thumb == relpath(cwd, thumb_path, output_dir) IN
            /\ disk' = disk \cup {abspath(cwd, thumb_path)}
            /\ links' = [links EXCEPT
                           !.item = Append(@, Link("preview", rel_thumb))]
       ELSE UNCHANGED <<links, disk>>
    /\ pc' = "link"
    /\ UNCHANGED linkFrame

\* lines 805-807: the self hrefs are set and collection.add_item(item) links
\* the two objects; the href of a link to an object is that object's self href
LinkDocuments ==
    /\ pc = "link"
    /\ links' = [collection |-> links.collection
                                \o <<Link("root", collection_path),
                                      Link("self", collection_path),
                                      Link("item", item_path)>>,
                 item |-> links.item
                          \o <<Link("self", item_path),
                                Link("root", collection_path),
                                Link("parent", collection_path),
                                Link("collection", collection_path)>>]
    /\ pc' = "rewrite"
    /\ UNCHANGED <<disk, linkFrame>>

\* lines 813-815 and 822: the href of one link, rewritten relative to start
RewriteHref(ls, start) ==
    [k \in 1..Len(ls) |-> Link(ls[k].rel, relpath(cwd, ls[k].href, start))]

\* lines 811-822: every href of the two dictionaries is rewritten
RewriteLinks ==
    /\ pc = "rewrite"
    /\ links' = [collection |-> RewriteHref(links.collection, collection_dir),
                 item |-> RewriteHref(links.item, items_dir)]
    /\ pc' = "save"
    /\ UNCHANGED <<disk, linkFrame>>

\* lines 824-825: the two documents are written
SaveDocuments ==
    /\ pc = "save"
    /\ disk' = disk \cup {abspath(cwd, collection_path), abspath(cwd, item_path)}
    /\ pc' = "saved"
    /\ UNCHANGED <<links, linkFrame>>

NextLinks == AddThumbnail \/ LinkDocuments \/ RewriteLinks \/ SaveDocuments

SpecLinks == InitLinks /\ [][NextLinks]_vars

(***************************************************************************)
(* The quicklook (specification SpecThumb): _write_thumbnail_from_raster,   *)
(* lines 325-372.  A band is the flat list of its pixels, px, together with *)
(* the set nans of the positions that hold the floating-point NaN (px is    *)
(* not read there).  Percentiles are kept in hundredths, so that the linear *)
(* interpolation of np.percentile is exact.                                 *)
(***************************************************************************)
NumPixels == 51
MaxBands == 4
\* size: int = 255 (line 326), also passed by the one caller (line 695)
ThumbSize == 255

Rep(v, n) == [i \in 1..n |-> v]
Band(px) == [px |-> px, nans |-> {}]

\* the bands a source raster may hold
BandNodata == Band(Rep(-1, NumPixels))
BandConst == Band(Rep(5, NumPixels))
BandOutlier == Band(Rep(5, NumPixels - 1) \o <<1000>>)
BandMix == Band(Rep(-1, 10) \o Rep(0, 20) \o Rep(100, NumPixels - 30))
BandNaN == [px |-> Rep(0, NumPixels), nans |-> 1..NumPixels]
BandPool == {BandNodata, BandConst, BandOutlier, BandMix, BandNaN}

NodataPool == {NoData,
               [set |-> TRUE, nan |-> FALSE, value |-> -1],
               [set |-> TRUE, nan |-> FALSE, value |-> 0],
               [set |-> TRUE, nan |-> TRUE, value |-> 0]}

\* what astype("uint8") may make of a NaN (line 361): the conversion is
\* undefined, builds give 0 or 255
NanCasts == {0, 255}

SourceBands == UNION {[1..n -> BandPool] : n \in 0..MaxBands}

\* lines 334-342 for a source with two bands, padded with the second band
\* instead of the first
PadTwoBands_WithSecond(bands) == <<bands[1], bands[2], bands[2]>>

\* lines 340-342: np.vstack([data, data[0:1]])
PadTwoBands(bands) == <<bands[1], bands[2], bands[1]>>

\* lines 336-342: the three bands of the quicklook, for at least one band
SelectBands(bands) ==
    IF Len(bands) = 1 THEN <<bands[1], bands[1], bands[1]>>
    ELSE IF Len(bands) >= 3 THEN SubSeq(bands, 1, 3)
    ELSE PadTwoBands(bands)

\* lines 348-351: mask = b == nodata; a comparison with NaN is never true
mask(b, nodata) ==
    {i \in DOMAIN b.px : /\ nodata.set
                         /\ ~nodata.nan
                         /\ i \notin b.nans
                         /\ b.px[i] = nodata.value}

\* line 353: valid = b[~mask], as the positions kept
valid(b, nodata) == DOMAIN b.px \ mask(b, nodata)

\* the k-th smallest (k from 0) of the pixels at the positions V
SortedAt(b, V, k) ==
    CHOOSE v \in {b.px[i] : i \in V} :
        /\ Cardinality({i \in V : b.px[i] < v}) <= k
        /\ k < Cardinality({i \in V : b.px[i] <= v})

\* lines 357-358: np.percentile(valid, p) with its default linear
\* interpolation, times 100
percentile(b, V, p) ==
    LET n == Cardinality(V)
        h == p * (n - 1)
        lo == h \div 100
        hi == IF lo + 1 < n THEN lo + 1 ELSE lo
        a == SortedAt(b, V, lo)
        c == SortedAt(b, V, hi)
    IN  100 * a + (h % 100) * (c - a)

\* line 361: np.clip
clip(x, lo, hi) == IF x < lo THEN lo ELSE IF x > hi THEN hi ELSE x

\* lines 361-363: one pixel stretched between vmin and vmax (in hundredths)
\* and cut to an integer
Stretch(x, vmin, vmax) ==
    ((clip(100 * x, vmin, vmax) - vmin) * 255) \div (vmax - vmin)

\* lines 359-360
vmax_of(vmin, p98) == IF p98 <= vmin THEN vmin + 100 ELSE p98

\* lines 347-364: one band normalised to uint8.  A NaN among the valid
\* pixels makes both percentiles NaN, the test of line 359 false and every
\* stretched pixel NaN, which the cast turns into nan_cast.
NormalizeBand(b, nodata, nan_cast) ==
    LET m == mask(b, nodata)
        V == valid(b, nodata)
    IN
    IF V = {} THEN [i \in DOMAIN b.px |-> 0]
    ELSE IF V \cap b.nans # {}
    THEN [i \in DOMAIN b.px |-> IF i \in m THEN 0 ELSE nan_cast]
    ELSE LET vmin == percentile(b, V, 2)
             vmax == vmax_of(vmin, percentile(b, V, 98))
         IN  [i \in DOMAIN b.px |->
                 IF i \in m THEN 0 ELSE Stretch(b.px[i], vmin, vmax)]

\* the bands all of whose pixels are 0
AllZero(bands) == \A k \in DOMAIN bands : \A i \in DOMAIN bands[k] : bands[k][i] = 0

\* lines 329-331: the source has been read
InitThumb ==
    /\ thumb \in {[src |-> b, nodata |-> n, rgb |-> <<>>, out |-> <<>>,
                   image |-> <<>>] : b \in SourceBands, n \in NodataPool}
    /\ output_dir = Pth(FALSE, <<>>)
    /\ cwd = Pth(TRUE, <<"home", "u">>)
    /\ links = NoLinks
    /\ disk = {}
    /\ clock = None
    /\ cli = None
    /\ pipe = None
    /\ pc = "bands"
    /\ data = <<>>
    /\ fs = InputFiles
    /\ collection_id = "LS-DF"
    /\ item_id = ""
    /\ dirs = {AssetDir}
    /\ err = ""
    /\ id = NoId
    /\ ei = 1
    /\ expanded = <<>>
    /\ loc = NoLoc
    /\ ref = NoRef
    /\ asset_paths = <<>>
    /\ bbox = None
    /\ folded = <<>>
    /\ item = NoItem
    /\ written = {}
    /\ verdicts = NoVerdicts
    /\ tree = {}
    /\ service_uid = ""
    /\ counter = 0

thumbFrame == <<collection_id, item_id, data, dirs, id, ei, expanded, loc, ref,
                asset_paths, bbox, folded, item, written, idVars,
                output_dir, cwd, links, disk, clock, cli, pipe>>

\* lines 334-342: three bands are made of the bands read, or the call fails
ThreeBands ==
    /\ pc = "bands"
    /\ IF Len(thumb.src) = 0
       THEN /\ pc' = "raised"
            /\ err' = "RuntimeError"
            /\ thumb' = thumb
       ELSE /\ pc' = "normalize"
            /\ err' = err
            /\ thumb' = [thumb EXCEPT !.rgb = SelectBands(thumb.src)]
    /\ UNCHANGED <<fs, thumbFrame>>

\* lines 345-365: each of the three bands is normalised
Normalize ==
    /\ pc = "normalize"
    /\ \E nan_cast \in NanCasts :
          thumb' = [thumb EXCEPT !.out =
                       [k \in 1..3 |->
                           NormalizeBand(thumb.rgb[k], thumb.nodata, nan_cast)]]
    /\ pc' = "save"
    /\ UNCHANGED <<fs, err, thumbFrame>>

\* lines 367-372: the bands are stacked, resized to size x size and saved;
\* resizing leaves an image of zeros an image of zeros
SaveThumbnail ==
    /\ pc = "save"
    /\ thumb' = [thumb EXCEPT !.image = [size |-> <<ThumbSize, ThumbSize>>,
                                         bands |-> Len(thumb.out),
                                         all_zero |-> AllZero(thumb.out)]]
    /\ fs' = (ThumbnailPath :> [arrays |-> <<>>, cog |-> FALSE]) @@ fs
    /\ pc' = "returned"
    /\ UNCHANGED <<err, thumbFrame>>

NextThumb == ThreeBands \/ Normalize \/ SaveThumbnail

SpecThumb == InitThumb /\ [][NextThumb]_vars

(***************************************************************************)
(* Timestamp tokens made and read back (specification SpecTs):             *)
(* stac_products.utc_timestamp_millis, lines 56-72, followed by            *)
(* stac_structure.parse_hub_ts, lines 119-133.  A datetime is the fields   *)
(* of its wall clock with its tzinfo: naive, or aware at off minutes east  *)
(* of UTC.                                                                 *)
(***************************************************************************)
\* the variables a run of a script leaves alone
scriptFrame == <<collection_id, item_id, verdicts, tree, service_uid, counter,
                 callVars, output_dir, cwd, links, disk, thumb>>

Datetime(date, h, mi, s, us, tz) ==
    [y |-> date[1], mo |-> date[2], d |-> date[3], h |-> h, mi |-> mi, s |-> s,
     us |-> us, aware |-> tz[1], off |-> tz[2]]

Naive == <<FALSE, 0>>
DatePool == {<<2024, 2, 29>>, <<2025, 1, 1>>, <<2025, 12, 17>>, <<2025, 12, 31>>}
ZonePool == {Naive, <<TRUE, 0>>, <<TRUE, 120>>, <<TRUE, -300>>}

\* the datetimes passed as dt: millisecond precision, any tzinfo
ArgDatetimes ==
    {Datetime(date, h, mi, s, us, tz) :
        date \in DatePool, h \in {0, 14, 23}, mi \in {0, 59}, s \in {0, 38},
        us \in {0, 86000, 999000}, tz \in ZonePool}

\* what datetime.utcnow() may return: naive, the wall clock of UTC
UtcNows ==
    {Datetime(date, h, mi, s, us, Naive) :
        date \in DatePool, h \in {0, 14, 23}, mi \in {0, 59}, s \in {0, 38},
        us \in {0, 86999, 999999}}

\* utc_timestamp_millis whose token has no "d" before the milliseconds (the
\* format of utc_timestamp_millis_version03)
utc_timestamp_millis_NoSeparator(dt, utcnow) ==
    LET now == IF dt # None THEN dt ELSE utcnow IN
    ZeroPad(Decimal(now.y), 4) \o ZeroPad(Decimal(now.mo), 2)
        \o ZeroPad(Decimal(now.d), 2) \o "T" \o ZeroPad(Decimal(now.h), 2)
        \o ZeroPad(Decimal(now.mi), 2) \o ZeroPad(Decimal(now.s), 2)
        \o ZeroPad(Decimal(now.us \div 1000), 3)

\* lines 67-72: now = dt or datetime.utcnow(); strftime prints the wall clock
\* of now, whatever its tzinfo
utc_timestamp_millis(dt, utcnow) ==
    LET now == IF dt # None THEN dt ELSE utcnow
        ts_prefix == ZeroPad(Decimal(now.y), 4) \o ZeroPad(Decimal(now.mo), 2)
                        \o ZeroPad(Decimal(now.d), 2) \o "T"
                        \o ZeroPad(Decimal(now.h), 2) \o ZeroPad(Decimal(now.mi), 2)
                        \o ZeroPad(Decimal(now.s), 2)
        millis == now.us \div 1000
    IN  ts_prefix \o "d" \o ZeroPad(Decimal(millis), 3)

InitTs ==
    /\ clock \in {[dt |-> dt, utcnow |-> n, ts |-> "", back |-> NoTime,
                   at |-> "call"] :
                     dt \in ArgDatetimes,
                     n \in {Datetime(<<2025, 12, 17>>, 14, 43, 38, 86999, Naive)}}
              \cup
                 {[dt |-> None, utcnow |-> n, ts |-> "", back |-> NoTime,
                   at |-> "call"] : n \in UtcNows}
    /\ cli = None
    /\ pipe = None
    /\ output_dir = Pth(FALSE, <<>>)
    /\ cwd = Pth(TRUE, <<"home", "u">>)
    /\ links = NoLinks
    /\ disk = {}
    /\ thumb = NoThumb
    /\ tree = {}
    /\ service_uid = ""
    /\ counter = 0
    /\ collection_id = "LS-DF"
    /\ item_id = ""
    /\ verdicts = NoVerdicts
    /\ NoCall

\* ts = utc_timestamp_millis(dt)
MakeToken ==
    /\ clock # None
    /\ clock.at = "call"
    /\ clock' = [clock EXCEPT !.ts = utc_timestamp_millis(clock.dt, clock.utcnow),
                              !.at = "made"]
    /\ UNCHANGED <<cli, pipe, scriptFrame>>

\* parse_hub_ts(ts), which raises ValueError for a token it cannot read
ReadToken ==
    /\ clock # None
    /\ clock.at = "made"
    /\ clock' = [clock EXCEPT !.back = parse_hub_ts(clock.ts),
                              !.at = IF parse_hub_ts(clock.ts).ok
                                     THEN "read" ELSE "ValueError"]
    /\ UNCHANGED <<cli, pipe, scriptFrame>>

NextTs == MakeToken \/ ReadToken

SpecTs == InitTs /\ [][NextTs]_vars

(***************************************************************************)
(* SBAS.run_pipeline (specification SpecSbas): SBAS.py, lines 36-69.  An   *)
(* option that is None or empty is "", which the code tests alike.         *)
(***************************************************************************)
\* lines 12-19
STEPS ==
    <<"step1_download_sentinel", "step2_download_orbits", "step3_dem_creation",
      "step4_stack_interferograms", "step5_run_stack", "step6_run_mintpy">>

StepNames == {STEPS[k] : k \in DOMAIN STEPS}

\* the values of --step and of runtime.start_from_step: unset, a step, or a
\* name that is no step
StepOptions == {""} \cup StepNames \cup {"step7_export"}
SpecificSteps == {"", "step3_dem_creation", "step7_export"}

InitSbas ==
    /\ pipe \in {[prog |-> "SBAS", steps_config |-> en, specific_step |-> sp,
                  resume |-> re, dry_run |-> dr, start_from_step |-> st,
                  started |-> (st = ""), i |-> 1, executed |-> <<>>,
                  raised |-> "", status |-> "running"] :
                    en \in SUBSET StepNames, sp \in SpecificSteps,
                    re \in BOOLEAN, dr \in BOOLEAN, st \in StepOptions}
    /\ clock = None
    /\ cli = None
    /\ output_dir = Pth(FALSE, <<>>)
    /\ cwd = Pth(TRUE, <<"home", "u">>)
    /\ links = NoLinks
    /\ disk = {}
    /\ thumb = NoThumb
    /\ tree = {}
    /\ service_uid = ""
    /\ counter = 0
    /\ collection_id = "LS-DF"
    /\ item_id = ""
    /\ verdicts = NoVerdicts
    /\ NoCall

InLoop == pipe # None /\ pipe.prog = "SBAS" /\ pipe.status = "running"
              /\ pipe.i <= Len(STEPS)

\* lines 44-53: the step of this iteration is passed over
Skipped(p) ==
    LET step_name == STEPS[p.i] IN
    \/ step_name \notin p.steps_config
    \/ p.specific_step # "" /\ step_name # p.specific_step
    \/ p.resume /\ p.start_from_step # "" /\ step_name # p.start_from_step
          /\ ~p.started

\* lines 65-67 with the failure only logged
OnException_LogOnly(p) == [p EXCEPT !.raised = STEPS[p.i], !.i = @ + 1]

\* lines 65-67: logging.exception, sys.exit(1)
OnException(p) == [p EXCEPT !.raised = STEPS[p.i], !.status = "exit 1"]

\* lines 43-53: continue
SkipStep ==
    /\ InLoop
    /\ Skipped(pipe)
    /\ pipe' = [pipe EXCEPT !.i = @ + 1]
    /\ UNCHANGED <<clock, cli, scriptFrame>>

\* lines 55-60: with dry_run the step is only logged
DryRunStep ==
    /\ InLoop
    /\ ~Skipped(pipe)
    /\ pipe.dry_run
    /\ pipe' = [pipe EXCEPT !.started = TRUE, !.i = @ + 1]
    /\ UNCHANGED <<clock, cli, scriptFrame>>

\* lines 55-67: module.run(config), which returns or raises an Exception
RunStep ==
    /\ InLoop
    /\ ~Skipped(pipe)
    /\ ~pipe.dry_run
    /\ LET ran == [pipe EXCEPT !.started = TRUE,
                               !.executed = Append(@, STEPS[pipe.i])]
       IN  \/ pipe' = [ran EXCEPT !.i = @ + 1]
           \/ pipe' = OnException(ran)
    /\ UNCHANGED <<clock, cli, scriptFrame>>

\* line 69: the loop is over and the process ends with status 0
FinishPipeline ==
    /\ pipe # None /\ pipe.prog = "SBAS" /\ pipe.status = "running"
    /\ pipe.i > Len(STEPS)
    /\ pipe' = [pipe EXCEPT !.status = "exit 0"]
    /\ UNCHANGED <<clock, cli, scriptFrame>>

NextSbas == SkipStep \/ DryRunStep \/ RunStep \/ FinishPipeline

SpecSbas == InitSbas /\ [][NextSbas]_vars

(***************************************************************************)
(* run_pipeline.main (specification SpecRun): run_pipeline.py, lines       *)
(* 136-228.  A script path is "" when its option is omitted.               *)
(***************************************************************************)
\* the most --set options of a command line
MaxSets == 2

\* what subprocess.call may return: the exit status of the child, or minus
\* the number of the signal that killed it
ReturnCodes == {0, 1, 3, -9}

\* lines 57-61: run(cmd, dry) where the child would return rc, which executes
\* the child also in a dry run
run_AlwaysCall(rc, dry) == [rc |-> rc, called |-> TRUE]

\* lines 57-61: run(cmd, dry) where the child would return rc
run(rc, dry) == [rc |-> IF dry THEN 0 ELSE rc, called |-> ~dry]

\* sys.exit(n): the exit status of the process is n in 8 bits
ExitStatus(n) == n % 256

\* ap.error(...) prints the message and exits with status 2
ap_error(p) == [p EXCEPT !.at = "done", !.exit = 2]

InitRun ==
    /\ pipe \in {[prog |-> "run_pipeline", init |-> ini, cfg_exists |-> ce,
                  cfgmgr_exists |-> me, sets |-> n, wizard |-> wz,
                  sbas |-> sb[1], sbas_exists |-> sb[2],
                  stac |-> st[1], stac_exists |-> st[2], dry_run |-> dr,
                  at |-> "manager", k |-> 1, ran |-> <<>>, calls |-> <<>>,
                  final_rc |-> 0, exit |-> -1] :
                    ini \in BOOLEAN, ce \in BOOLEAN, me \in BOOLEAN,
                    n \in 0..MaxSets, wz \in BOOLEAN,
                    sb \in {<<"", FALSE>>, <<"SBAS.py", TRUE>>, <<"SBAS.py", FALSE>>},
                    st \in {<<"", FALSE>>, <<"stac_products.py", TRUE>>,
                            <<"stac_products.py", FALSE>>},
                    dr \in BOOLEAN}
    /\ clock = None
    /\ cli = None
    /\ output_dir = Pth(FALSE, <<>>)
    /\ cwd = Pth(TRUE, <<"home", "u">>)
    /\ links = NoLinks
    /\ disk = {}
    /\ thumb = NoThumb
    /\ tree = {}
    /\ service_uid = ""
    /\ counter = 0
    /\ collection_id = "LS-DF"
    /\ item_id = ""
    /\ verdicts = NoVerdicts
    /\ NoCall

AtStage(stage) == pipe # None /\ pipe.prog = "run_pipeline" /\ pipe.at = stage

\* rc = run(cmd, dry=args.dry_run) for a stage, followed by
\* "if rc != 0: sys.exit(rc)"; otherwise the run goes on at stage next
RunStage(p, stage, rc, next) ==
    LET r == run(rc, p.dry_run)
        q == [p EXCEPT !.ran = Append(@, <<stage, r.rc>>),
                       !.calls = IF r.called THEN Append(@, stage) ELSE @]
    IN  IF r.rc # 0 THEN [q EXCEPT !.at = "done", !.exit = ExitStatus(r.rc)]
        ELSE [q EXCEPT !.at = next]

\* lines 139-140
CheckManager ==
    /\ AtStage("manager")
    /\ pipe' = IF ~pipe.cfgmgr_exists THEN ap_error(pipe)
               ELSE [pipe EXCEPT !.at = "init"]
    /\ UNCHANGED <<clock, cli, scriptFrame>>

\* lines 143-156: init when asked for, or when the config file is missing
InitConfig ==
    /\ AtStage("init")
    /\ IF pipe.init \/ ~pipe.cfg_exists
       THEN \E rc \in ReturnCodes : pipe' = RunStage(pipe, "init", rc, "sets")
       ELSE pipe' = [pipe EXCEPT !.at = "sets"]
    /\ UNCHANGED <<clock, cli, scriptFrame>>

\* lines 159-163: one --set of the loop, or the end of the loop
ApplyOverride ==
    /\ AtStage("sets")
    /\ IF pipe.k <= pipe.sets
       THEN \E rc \in ReturnCodes :
               pipe' = RunStage([pipe EXCEPT !.k = @ + 1], "set", rc, "sets")
       ELSE pipe' = [pipe EXCEPT !.at = "wizard"]
    /\ UNCHANGED <<clock, cli, scriptFrame>>

\* lines 166-178
Wizard ==
    /\ AtStage("wizard")
    /\ IF pipe.wizard
       THEN \E rc \in ReturnCodes : pipe' = RunStage(pipe, "wizard", rc, "sbas")
       ELSE pipe' = [pipe EXCEPT !.at = "sbas"]
    /\ UNCHANGED <<clock, cli, scriptFrame>>

\* lines 181-195
RunSbas ==
    /\ AtStage("sbas")
    /\ IF pipe.sbas = "" THEN pipe' = [pipe EXCEPT !.at = "stac"]
       ELSE IF ~pipe.sbas_exists THEN pipe' = ap_error(pipe)
       ELSE \E rc \in ReturnCodes :
               LET q == RunStage(pipe, "sbas", rc, "stac") IN
               pipe' = IF q.at = "done" THEN q
                       ELSE [q EXCEPT !.final_rc = run(rc, pipe.dry_run).rc]
    /\ UNCHANGED <<clock, cli, scriptFrame>>

\* lines 199-225: the return code of the STAC script is kept, not tested
RunStac ==
    /\ AtStage("stac")
    /\ IF pipe.stac = "" THEN pipe' = [pipe EXCEPT !.at = "exit"]
       ELSE IF ~pipe.stac_exists THEN pipe' = ap_error(pipe)
       ELSE \E rc \in ReturnCodes :
               LET r == run(rc, pipe.dry_run) IN
               pipe' = [pipe EXCEPT !.ran = Append(@, <<"stac", r.rc>>),
                                    !.calls = IF r.called THEN Append(@, "stac")
                                              ELSE @,
                                    !.final_rc = r.rc,
                                    !.at = "exit"]
    /\ UNCHANGED <<clock, cli, scriptFrame>>

\* line 228: sys.exit(final_rc)
ExitRun ==
    /\ AtStage("exit")
    /\ pipe' = [pipe EXCEPT !.at = "done", !.exit = ExitStatus(pipe.final_rc)]
    /\ UNCHANGED <<clock, cli, scriptFrame>>

NextRun == CheckManager \/ InitConfig \/ ApplyOverride \/ Wizard \/ RunSbas
              \/ RunStac \/ ExitRun

SpecRun == InitRun /\ [][NextRun]_vars

(***************************************************************************)
(* stac_products.main, run again and again with one command line into one  *)
(* output root (specification SpecMain): stac_products.py, lines 151-184.  *)
(* An option that is omitted is "".  tree holds the names beneath the      *)
(* output root.                                                            *)
(***************************************************************************)
\* the most runs of the script
MaxRuns == 3

\* the command lines: --auto-item-id or not, --item-id, --service-uid
MainArgs ==
    {[auto_item_id |-> au, item_id |-> iid, service_uid |-> svc] :
        au \in BOOLEAN,
        iid \in {"", "LS-DF-SB-S1_20251217T144338d086"},
        svc \in {"", "LS-DF-SB-S1", "LS-DF9", "XX-YY"}}

\* the trees the first run may find beneath the output root
MainTrees ==
    {{}, {Dir("LS-DF-SB-S1_20251217T144338086_000003"),
          File("LS-DF-SB-S1_20251217T144338086_000003.json")}}

\* the UTC time at which the first run would start; run r starts r seconds
\* into that minute
MainClocks ==
    {Datetime(date, hm[1], hm[2], 0, 86999, Naive) :
        date \in {<<2025, 12, 17>>, <<2025, 12, 31>>},
        hm \in {<<14, 43>>, <<23, 59>>}}

TimeOfRun(base, r) == [base EXCEPT !.s = r]

\* the locals of main when a run starts: ts and ctr are not bound
NewRun(c) ==
    [c EXCEPT !.run = @ + 1, !.at = "choose", !.bound = FALSE, !.ts = "",
              !.ctr = "", !.local_item_id = "", !.error = ""]

InitMain ==
    /\ cli \in {[args |-> a, base |-> b, run |-> 1, at |-> "choose",
                 bound |-> FALSE, ts |-> "", ctr |-> "", local_item_id |-> "",
                 error |-> "", runs |-> <<>>] :
                   a \in MainArgs, b \in MainClocks}
    /\ tree \in MainTrees
    /\ clock = None
    /\ pipe = None
    /\ output_dir = Pth(FALSE, <<>>)
    /\ cwd = Pth(TRUE, <<"home", "u">>)
    /\ links = NoLinks
    /\ disk = {}
    /\ thumb = NoThumb
    /\ service_uid = ""
    /\ counter = 0
    /\ collection_id = "LS-DF"
    /\ item_id = ""
    /\ verdicts = NoVerdicts
    /\ NoCall

mainFrame == <<collection_id, item_id, verdicts, service_uid, counter,
               callVars, output_dir, cwd, links, disk, thumb, clock, pipe>>

\* what a run leaves in the history: its counter ("" when not obtained), the
\* item id it passed to create_stac_structure (called) and whether the item
\* was persisted
RunRecord(c, called, persisted) ==
    [auto |-> c.args.auto_item_id, service_uid |-> c.args.service_uid,
     ctr |-> c.ctr, ts |-> c.ts, called |-> called,
     item_id |-> c.local_item_id, persisted |-> persisted, error |-> c.error]

\* the run ends with exception e before create_stac_structure is called
Abort(c, e) ==
    LET d == [c EXCEPT !.error = e] IN
    [d EXCEPT !.at = "done", !.runs = Append(@, RunRecord(d, FALSE, FALSE))]

\* lines 155-160: the id of --auto-item-id
AutoItemId(svc, ts, ctr) == svc \o "_" \o ts

\* lines 152-163
ChooseItemId ==
    /\ cli # None /\ cli.at = "choose"
    /\ IF cli.args.auto_item_id
       THEN IF cli.args.service_uid = ""
            THEN cli' = Abort(cli, "SystemExit")
            ELSE LET ts == utc_timestamp_millis(None, TimeOfRun(cli.base, cli.run))
                     ctr == format_counter(
                                next_counter_for_service(tree, cli.args.service_uid))
                 IN  cli' = [cli EXCEPT
                               !.bound = TRUE, !.ts = ts, !.ctr = ctr,
                               !.local_item_id =
                                   AutoItemId(cli.args.service_uid, ts, ctr),
                               !.at = "announce"]
       ELSE cli' = [cli EXCEPT !.local_item_id = cli.args.item_id,
                               !.at = "announce"]
    /\ UNCHANGED <<tree, mainFrame>>

\* lines 164-167: the message names ts and ctr, which are bound only by the
\* branch of --auto-item-id
Announce ==
    /\ cli # None /\ cli.at = "announce"
    /\ cli' = IF cli.bound THEN [cli EXCEPT !.at = "call"]
              ELSE Abort(cli, "UnboundLocalError")
    /\ UNCHANGED <<tree, mainFrame>>

\* lines 443-469 of stac_structure.py: the item id gets through the parsing
\* and the validation of create_stac_structure
IdGetsThrough(cid, iid) ==
    /\ _ADHOC_RE(iid).ok
    /\ parse_hub_ts(_ADHOC_RE(iid).ts).ok
    /\ ValidateItemId(cid, iid) = "ok"

\* the names create_stac_structure leaves beneath the output root for an
\* item: its directories under items/ and assets/ and its document
ItemNames(iid) == {Dir(iid), File(iid \o ".json")}

\* lines 169-184: create_stac_structure is called; it raises on the id or on
\* the data, or persists the item
CallCreate ==
    /\ cli # None /\ cli.at = "call"
    /\ \/ /\ IdGetsThrough(collection_id, cli.local_item_id)
          /\ tree' = tree \cup ItemNames(cli.local_item_id)
          /\ cli' = [cli EXCEPT !.at = "done",
                                !.runs = Append(@, RunRecord(cli, TRUE, TRUE))]
       \/ /\ tree' = IF IdGetsThrough(collection_id, cli.local_item_id)
                     THEN tree \cup {Dir(cli.local_item_id)} ELSE tree
          /\ LET d == [cli EXCEPT !.error = "create_stac_structure"] IN
             cli' = [d EXCEPT !.at = "done",
                              !.runs = Append(@, RunRecord(d, TRUE, FALSE))]
    /\ UNCHANGED mainFrame

\* lines 187-188: the script is started again
StartRun ==
    /\ cli # None /\ cli.at = "done"
    /\ cli.run < MaxRuns
    /\ cli' = NewRun(cli)
    /\ UNCHANGED <<tree, mainFrame>>

NextMain == ChooseItemId \/ Announce \/ CallCreate \/ StartRun

SpecMain == InitMain /\ [][NextMain]_vars

(***************************************************************************)
(* Properties of create_stac_structure.                                    *)
(***************************************************************************)
\* a raster without a CRS or without a (non-identity) transform
Lacks(r) == r.crs = NoCrs \/ r.tf = IdentityTransform

\* the raster the loop is working on
Current == RasterOf(fs, Head(expanded))

\* C1, reconciliation step: a raster that lacks a CRS or a transform is
\* given the reference's CRS and transform only when a reference has been
\* captured and has the raster's (width, height); in every other case the
\* file is left alone and the call raises, at once or at the enforcement
\* that follows.
C1_ReconcileStep ==
    (pc = "reconcile" /\ Readable(fs, Head(expanded)) /\ Lacks(Current))
    => LET dest == Head(expanded)
           r == Current
       IN  IF ref.transform # None /\ ref.crs # NoCrs /\ ref.size = <<r.w, r.h>>
           THEN /\ pc' = "enforce"
                /\ RasterOf(fs', dest) =
                       [r EXCEPT !.crs = ref.crs, !.tf = ref.transform]
           ELSE /\ fs' = fs
                /\ asset_paths' = asset_paths
                /\ \/ pc' = "error"
                   \/ pc' = "enforce" /\ ~(loc'.has_crs /\ loc'.has_transform)

\* C1, enforcement: a raster that still lacks georeferencing aborts the call
C1_EnforceStep ==
    (pc = "enforce" /\ ~(loc.has_crs /\ loc.has_transform))
    => pc' = "error" /\ asset_paths' = asset_paths /\ fs' = fs

\* C1, finalization: the raster appended to the asset list has a CRS and a
\* transform
C1_AppendStep ==
    asset_paths' # asset_paths
    => /\ Len(asset_paths') = Len(asset_paths) + 1
       /\ ~Lacks(RasterOf(fs', asset_paths'[Len(asset_paths')]))

\* C1: backfill happens only from a captured reference of the same size,
\* every other raster without georeferencing aborts the call, and no raster
\* without CRS and transform is appended to (or, at the end, in) the asset list.
C1_BackfillOnlyFromSameSizeReference ==
    /\ [][C1_ReconcileStep /\ C1_EnforceStep /\ C1_AppendStep]_vars
    /\ [](pc = "done" =>
            \A i \in 1..Len(asset_paths) : ~Lacks(RasterOf(fs, asset_paths[i])))

\* C1 witness: a call that was given the ungeoreferenced raster n.tif has
\* finished with it in the asset list
C1_Witness ==
    /\ pc = "done"
    /\ \E i \in 1..Len(asset_paths) : asset_paths[i] = P(AssetDir, "n", ".tif")

\* C2 as claimed: once the raster that established the reference has been
\* reprojected, the reference is that raster's post-reprojection CRS,
\* transform and size, and a later backfill gives a sibling the CRS the
\* establishing raster has on disk.
C2_ReferenceRecaptured ==
    /\ (pc = "fold" /\ asset_paths = <<>>)
       => ref = [transform |-> Current.tf, crs |-> Current.crs,
                 size |-> <<Current.w, Current.h>>]
    /\ (pc = "enforce" /\ Len(asset_paths) = 1 /\ Len(data) = 2
          /\ data[2] = P("in", "n", ".tif"))
       => Current.crs = RasterOf(fs, asset_paths[1]).crs

\* C3: once the item is assembled (and so on every successful
\* construction) every raster of the asset list is in EPSG:2100, the value
\* proj:code states.
C3_AssetsInWorkingCrs ==
    pc \in {"write_collection", "write_item", "done"}
    => \A i \in 1..Len(asset_paths) :
          RasterOf(fs, asset_paths[i]).crs = "EPSG:2100"

\* C3 witness: a finished call whose inputs include rasters in EPSG:4326 and
\* in a CRS without an EPSG code
C3_Witness ==
    /\ pc = "done"
    /\ data = <<P("in", "c", ".tif"), P("in", "k", ".tif")>>

(***************************************************************************)
(* The identifier grammars as the design states them.                      *)
(***************************************************************************)
\* systematic: <SERVICE_UID>_<YYYYMMDD>
GrammarSystematic(i) == HasSvc(i) /\ IsDigits(RestOf(i), 8)

\* ad-hoc without the legacy counter: <SERVICE_UID>_<YYYYMMDDTHHMMSS>d<mmm>
GrammarAdhocPlain(i) == HasSvc(i) /\ IsTsD(RestOf(i))

\* ad-hoc with the legacy counter: ..._<NNNNNN>
GrammarAdhocCounter(i) ==
    /\ HasSvc(i)
    /\ Len(RestOf(i)) = 26
    /\ IsTsD(SubSeq(RestOf(i), 1, 19))
    /\ Ch(RestOf(i), 20) = "_"
    /\ IsDigits(SubSeq(RestOf(i), 21, 26), 6)

GrammarAdhoc(i) == GrammarAdhocPlain(i) \/ GrammarAdhocCounter(i)

MatchesGrammar(i) == GrammarSystematic(i) \/ GrammarAdhoc(i)

\* the service UID of the id is on the allow-list of the collection
UidAllowed(cid, i) == cid \in CollectionIds /\ SvcOf(i) \in COLLECTIONS(cid)

\* the call got past its identifier checks
PastValidation == pc \notin {"parse_id", "validate"} /\ dirs # {}
\* the call has decided on the identifier
IdDecided == pc \notin {"parse_id", "validate"}

\* C4 as claimed: for a collection id of the registry, the identifier checks
\* of create_stac_structure let the call proceed exactly when the item id
\* matches one of the two grammars and its service UID is allowed for the
\* collection.
C4_AcceptedIffGrammarAndAllowed ==
    (collection_id \in CollectionIds /\ IdDecided)
    => (PastValidation <=> (MatchesGrammar(item_id)
                              /\ UidAllowed(collection_id, item_id)))

\* C5 as claimed: an ad-hoc id with a well-formed timestamp and an allowed
\* service UID is accepted by both validators, with the legacy counter
\* suffix and without it.
C5_AdhocAcceptedWithOrWithoutCounter ==
    (/\ GrammarAdhoc(item_id)
     /\ parse_hub_ts(SubSeq(RestOf(item_id), 1, 19)).ok
     /\ UidAllowed("LS-DF", item_id))
    => /\ verdicts.structure # "reject"
       /\ verdicts.products # "reject"

\* C10 as claimed: a call with an unknown collection id, an item id of
\* neither grammar or an item id whose service UID the collection does not
\* allow raises before it creates any directory or file.
C10_InvalidCallTouchesNothing ==
    (\/ collection_id \notin CollectionIds
     \/ ~MatchesGrammar(item_id)
     \/ ~UidAllowed(collection_id, item_id))
    => /\ pc \in {"parse_id", "validate", "error"}
       /\ dirs = {}
       /\ fs = InputFiles
       /\ written = {}

\* the number of rasters the entries expand to
RECURSIVE RastersOf(_)
RastersOf(entries) ==
    IF entries = <<>> THEN 0
    ELSE Len(InputFiles[Head(entries)].arrays) + RastersOf(Tail(entries))

\* every input has been expanded, reconciled, reprojected and folded
AllInputsProcessed ==
    /\ \A i \in 1..Len(data) : data[i] \in DOMAIN InputFiles
    /\ ei = Len(data) + 1
    /\ expanded = <<>>
    /\ Len(asset_paths) = RastersOf(data)
    /\ Len(folded) = RastersOf(data)

BothDocuments == {"collection.json", "item.json"}

\* C6 as claimed: the documents are written only after every input has been
\* processed, and a call ends with both documents written or with an error
\* and neither written.
C6_AllOrNothing ==
    /\ written # {} => AllInputsProcessed
    /\ pc = "done" => written = BothDocuments
    /\ pc = "error" => written = {}

\* C6 as amended: the documents are written only after every input has been
\* processed and the item assembled; a call that returns has written both;
\* the item JSON is never written without collection.json; and a call that
\* ends with an error has written nothing, unless the error is the refusal
\* of the item JSON's write, which leaves collection.json alone written.
C6_WrittenOnlyAfterAllInputs ==
    /\ written # {} => (AllInputsProcessed /\ item.built)
    /\ pc = "done" => written = BothDocuments
    /\ "item.json" \in written => "collection.json" \in written
    /\ (pc = "error" /\ written # {})
       => (err = "OSError" /\ written = {"collection.json"})
    /\ (pc = "error" /\ err # "OSError") => written = {}

\* C6 witness: a call over two entries has returned with both documents
C6_Witness ==
    /\ pc = "done"
    /\ Len(data) = 2
    /\ written = BothDocuments

\* the union of a non-empty sequence of bounds, each edge on its own
BoundsUnion(bs) ==
    <<Min({bs[i][1] : i \in 1..Len(bs)}), Min({bs[i][2] : i \in 1..Len(bs)}),
      Max({bs[i][3] : i \in 1..Len(bs)}), Max({bs[i][4] : i \in 1..Len(bs)})>>

\* fraction q is the midpoint of u and v
IsMidpoint(q, u, v) == q.den > 0 /\ 2 * q.num = q.den * (u + v)

\* C7: after k >= 1 finalized assets the bbox is [min of lefts, min of
\* bottoms, max of rights, max of tops] over the assets' EPSG:4326 bounds (a
\* function of the set of bounds, so whatever their order), the item carries
\* that bbox and its per-axis midpoint as proj:centroid, and bounds
\* [0,0,1,1] and [2,2,3,3] give bbox [0,0,3,3] and centroid (1.5, 1.5).
C7_BboxIsUnion ==
    /\ Len(folded) >= 1 => bbox = BoundsUnion(folded)
    /\ item.built
       => /\ item.bbox = BoundsUnion(folded)
          /\ IsMidpoint(item.centroid.lon, item.bbox[1], item.bbox[3])
          /\ IsMidpoint(item.centroid.lat, item.bbox[2], item.bbox[4])
    /\ (item.built /\ {folded[i] : i \in 1..Len(folded)}
                        = {<<0, 0, 1, 1>>, <<2, 2, 3, 3>>})
       => /\ item.bbox = <<0, 0, 3, 3>>
          /\ item.centroid = [lat |-> [num |-> 3, den |-> 2],
                              lon |-> [num |-> 3, den |-> 2]]

\* C7 witness: an item built from assets with bounds [2,2,3,3] then [0,0,1,1]
C7_Witness ==
    /\ item.built
    /\ folded = <<<<2, 2, 3, 3>>, <<0, 0, 1, 1>>>>

\* the raster of the input files that the loop is working on
CurrentInput ==
    LET arrays == InputFiles[data[ei]].arrays
    IN  arrays[Len(arrays) - Len(expanded) + 1]

\* the first raster of the call, as given
FirstInput == InputFiles[data[1]].arrays[1]

\* C9: when the first raster has CRS A and transform T and a later raster of
\* the same pixel dimensions has neither, the raster leaves reconciliation
\* with exactly CRS A and transform T (its pixels untouched), as the first
\* raster did.
C9_BackfillIsExact ==
    (/\ pc = "enforce"
     /\ ~Lacks(FirstInput)
     /\ <<CurrentInput.w, CurrentInput.h>> = <<FirstInput.w, FirstInput.h>>)
    => /\ asset_paths = <<>> => Current = FirstInput
       /\ (asset_paths # <<>> /\ CurrentInput.crs = NoCrs
             /\ CurrentInput.tf = IdentityTransform)
          => Current = [CurrentInput EXCEPT !.crs = FirstInput.crs,
                                             !.tf = FirstInput.tf]

\* C9 witness: the ungeoreferenced n.tif has been reconciled after c.tif,
\* a raster of its size in EPSG:4326
C9_Witness ==
    /\ pc = "enforce"
    /\ data = <<P("in", "c", ".tif"), P("in", "n", ".tif")>>
    /\ ei = 2
    /\ Current.crs = "EPSG:4326"

(***************************************************************************)
(* Properties of next_counter_for_service.                                 *)
(***************************************************************************)
\* the names of a tree that may name items: directory names and the stems
\* of JSON/GeoJSON files
CandidateNames(t) ==
    {e.name : e \in {f \in t : f.isDir}}
    \cup {splitext(e.name)[1] :
            e \in {f \in t : ~f.isDir
                      /\ Lower(splitext(f.name)[2]) \in {".json", ".geojson"}}}

\* an ad-hoc id with the 6-digit counter whose timestamp has no separator
\* before the milliseconds, as older ids were written
GrammarLegacyCounter(i) ==
    /\ HasSvc(i)
    /\ Len(RestOf(i)) = 25
    /\ IsTsPlain(SubSeq(RestOf(i), 1, 18))
    /\ Ch(RestOf(i), 19) = "_"
    /\ IsDigits(SubSeq(RestOf(i), 20, 25), 6)

\* the counter an item name carries: its last six characters
CounterOf(n) == ToInt(SubSeq(n, Len(n) - 5, Len(n)))

\* the counters of the item names of service UID svc: ad-hoc ids that carry
\* the 6-digit counter, with either form of timestamp
ItemCounters(t, svc) ==
    {CounterOf(n) :
        n \in {c \in CandidateNames(t) :
                 /\ GrammarAdhocCounter(c) \/ GrammarLegacyCounter(c)
                 /\ SvcOf(c) = svc}}

\* C8 as claimed: the result is 1 + the largest counter among the item names
\* of the service UID beneath the root, 1 when there is none, whatever other
\* names the tree holds.
C8_NextCounterIsMaxPlusOne ==
    counter # 0 => counter = Max(ItemCounters(tree, service_uid) \cup {0}) + 1

(***************************************************************************)
(* Further properties of create_stac_structure.                            *)
(***************************************************************************)
\* C11: a call with zero input entries never assembles an item and never
\* writes collection.json or the item JSON; once its identifiers are
\* accepted it ends with the ValueError of line 623.
C11_NoEntriesIsFatal ==
    data = <<>>
    => /\ pc \notin {"write_collection", "write_item", "done"}
       /\ ~item.built
       /\ written = {}
       /\ (pc = "error" /\ AssetDir \in dirs) => err = "ValueError"

\* C11 witness: a call with no entries got past its identifier checks and
\* ended with the error
C11_Witness ==
    /\ data = <<>>
    /\ pc = "error"
    /\ err = "ValueError"
    /\ AssetDir \in dirs

\* the file a relative href names, read from directory dir
Resolve(dir, href) == abspath(cwd, PathJoin(dir, href))

\* C12 as claimed: in the written documents every link href is relative and
\* names, from the directory of its document, a file that exists: the
\* collection links the item, the item links the collection (as root,
\* parent and collection), itself and, when it has one, its thumbnail.
C12_LinksResolve ==
    pc = "saved"
    => /\ \A k \in 1..Len(links.collection) :
             /\ ~links.collection[k].href.abs
             /\ Resolve(collection_dir, links.collection[k].href) \in disk
       /\ \A k \in 1..Len(links.item) :
             /\ ~links.item[k].href.abs
             /\ Resolve(items_dir, links.item[k].href) \in disk
       /\ \E k \in 1..Len(links.collection) :
             /\ links.collection[k].rel = "item"
             /\ Resolve(collection_dir, links.collection[k].href)
                  = abspath(cwd, item_path)
       /\ \A k \in 1..Len(links.item) :
             links.item[k].rel = "preview"
             => Resolve(items_dir, links.item[k].href) = abspath(cwd, thumb_path)

\* the sequence counter an item id carries, 1 for an id without one
CounterCarried(i) ==
    IF GrammarAdhocCounter(i) THEN CounterOf(i) ELSE 1

\* the product:id the design gives an asset of the item
ExpectedProductId(i, path) ==
    SvcOf(i) \o "_" \o SubSeq(RestOf(i), 1, 19) \o "_"
    \o (IF Lower(path.suffix) \in {".tif", ".tiff"} /\ path.stem # "thumbnail"
        THEN "RAS-CNT" ELSE "NON-GEO")
    \o "_" \o ZeroPad(Decimal(CounterCarried(i)), 4)

\* C13 as claimed: every data asset of an assembled item has the product:id
\* <service UID>_<timestamp token>_<class code>_<NNNN> of its item id, and
\* an item id that carries a counter is one the call reads the counter of
\* (it does not end at the parsing of the id).
C13_ProductIdOfItemId ==
    /\ item.built
       => \A i \in 1..Len(asset_paths) :
             item.assets[asset_paths[i].stem].product_id
               = ExpectedProductId(item_id, asset_paths[i])
    /\ (/\ GrammarAdhocCounter(item_id)
        /\ parse_hub_ts(SubSeq(RestOf(item_id), 1, 19)).ok
        /\ pc = "error")
       => err # "AttributeError"

\* the file at path is there and holds what it held before the call
Untouched(path) == path \in DOMAIN fs /\ fs[path] = InputFiles[path]

C16_RastersCarryProjection ==
    item.built
    => \A i \in 1..Len(asset_paths) :
          \E key \in DOMAIN item.assets :
             LET asset == item.assets[key]
                 r == RasterOf(fs, asset_paths[i])
             IN  /\ asset.href = asset_paths[i]
                 /\ asset.proj.code = "EPSG:2100"
                 /\ asset.proj.shape = <<r.h, r.w>>
                 /\ asset.proj.bbox = Bounds(r)
                 /\ asset.proj.transform = r.tf
                 /\ Len(asset.proj.bands) = 1
                 /\ asset.proj.bands[1].data_type = r.dtype
                 /\ asset.proj.bands[1].sampling = "area"

\* C17 as claimed: an assembled item has the preview file thumbnail.jpg in
\* its asset directory, one asset of role "thumbnail", under the key
\* "thumbnail" and pointing at that file, and one "preview" link to it,
\* made from the first asset with a .tif/.tiff suffix; the data assets
\* added afterwards leave the thumbnail asset in place.
C17_OneThumbnail ==
    item.built
    => /\ ThumbnailPath \in DOMAIN fs
       /\ item.thumbnail_of # 0
       /\ item.thumbnail_of = FirstRaster(asset_paths)
       /\ item.preview = <<ThumbnailPath>>
       /\ "thumbnail" \in DOMAIN item.assets
       /\ item.assets["thumbnail"].roles = <<"thumbnail">>
       /\ item.assets["thumbnail"].href = ThumbnailPath
       /\ \A key \in DOMAIN item.assets :
             item.assets[key].roles = <<"thumbnail">> => key = "thumbnail"

\* the longitudes and the latitudes of the corners of a raster, whatever the
\* CRS it is stored in
CornerLons(r) == {x - FalseOrigin(r.crs) : x \in {r.tf[3], r.tf[3] + r.tf[1] * r.w}}
CornerLats(r) == {y - FalseOrigin(r.crs) : y \in {r.tf[6], r.tf[6] + r.tf[5] * r.h}}

\* the box (west, south, east, north) of a raster, in degrees
GeographicBox(r) ==
    <<Min(CornerLons(r)), Min(CornerLats(r)), Max(CornerLons(r)), Max(CornerLats(r))>>

\* the vertices g are the closed ring of the corners of box
IsRingOf(g, box) ==
    /\ Len(g) = 5
    /\ g[1] = g[5]
    /\ {g[i] : i \in 1..4} = {<<lon, lat>> : lon \in {box[1], box[3]},
                                            lat \in {box[2], box[4]}}
    /\ \A i \in 1..4 : g[i][1] = g[i + 1][1] \/ g[i][2] = g[i + 1][2]

\* C20: the geometry of an assembled item is one ring of 5 vertices whose
\* first and last vertices are equal, whose vertices are the four corners of
\* the item bbox as (longitude, latitude) pairs and whose sides follow the
\* axes; and the bbox, the geometry and the centroid are in EPSG:4326,
\* degrees, whatever CRS the rasters are stored in: each finalized raster
\* enters the bbox with its box in longitude and latitude, the item bbox is
\* the union of these and the centroid its midpoint.
C20_GeometryInWgs84 ==
    [][ /\ Fold => /\ folded' = Append(folded, GeographicBox(RasterOf(fs, Head(expanded))))
                   /\ bbox' = BoundsUnion(folded')
        /\ item'.built => /\ IsRingOf(item'.geometry, item'.bbox)
                          /\ item'.bbox = BoundsUnion(folded')
                          /\ IsMidpoint(item'.centroid.lon, item'.bbox[1], item'.bbox[3])
                          /\ IsMidpoint(item'.centroid.lat, item'.bbox[2], item'.bbox[4])
      ]_vars

\* C20 witness: an item has been assembled from a raster given in EPSG:2100
\* and a raster given in EPSG:4326, both stored in EPSG:2100, and its bbox is
\* the box of the two in degrees, not in the metres they are stored in
C20_Witness ==
    /\ item.built
    /\ data = <<P("in", "a", ".tif"), P("in", "c", ".tif")>>
    /\ \A i \in 1..2 : RasterOf(fs, asset_paths[i]).crs = "EPSG:2100"
    /\ item.bbox = <<0, 0, 5, 2>>
    /\ item.geometry = <<<<0, 0>>, <<0, 2>>, <<5, 2>>, <<5, 0>>, <<0, 0>>>>

\* C26 as claimed: a call whose item id the identifier validation of its
\* collection accepts, systematic or ad-hoc, gets past the parsing of the
\* identifier: once the call has left the parsing, the parts of the id have
\* been read and the call has not ended there with an exception.
C26_AcceptedIdsAreParsed ==
    (ValidateItemId(collection_id, item_id) = "ok" /\ pc \notin {"parse_id", "idle"})
       => id # NoId

\* the keys of the data assets of the item
DataAssetKeys == {k \in DOMAIN item.assets : item.assets[k].roles = <<"data">>}

\* C27 as claimed: an assembled item has as many data assets as rasters were
\* finalized; no two finalized rasters share a file path or an asset key; and
\* no data asset has the key of the thumbnail asset.
C27_OneAssetPerRaster ==
    item.built =>
       /\ Cardinality(DataAssetKeys) = Len(asset_paths)
       /\ \A i \in DOMAIN asset_paths : \A j \in DOMAIN asset_paths :
             i # j => /\ asset_paths[i] # asset_paths[j]
                      /\ AssetKey(asset_paths[i]) # AssetKey(asset_paths[j])
       /\ \A i \in DOMAIN asset_paths : AssetKey(asset_paths[i]) # "thumbnail"
       /\ "thumbnail" \notin DataAssetKeys

\* the reference as captured from raster r
ReferenceOf(r) == [transform |-> r.tf, crs |-> r.crs, size |-> <<r.w, r.h>>]

\* the first entry of the call holds a raster
FirstInputReadable ==
    /\ data # <<>>
    /\ data[1] \in DOMAIN InputFiles
    /\ Len(InputFiles[data[1]].arrays) >= 1

\* C29: once there is a reference it is the CRS, the transform and the size
\* of the first raster in expansion order as that raster was given (before
\* its reprojection), and that raster had a CRS and a transform of its own; an
\* assembled item has such a reference; every raster that has been
\* backfilled has the size of that reference; and a call whose first raster
\* lacks a CRS or a transform never finalizes a raster or assembles an item,
\* whatever follows it: it ends in RuntimeError at that raster.
C29_ReferenceIsFirstRaster ==
    /\ ref # NoRef => /\ FirstInputReadable
                      /\ ~Lacks(FirstInput)
                      /\ ref = ReferenceOf(FirstInput)
    /\ item.built => ref # NoRef
    /\ (pc = "enforce" /\ asset_paths # <<>> /\ Lacks(CurrentInput)
           /\ loc.has_crs /\ loc.has_transform)
          => <<loc.width, loc.height>> = <<FirstInput.w, FirstInput.h>>
    /\ (FirstInputReadable /\ Lacks(FirstInput))
          => /\ ~item.built
             /\ asset_paths = <<>>
             /\ ref = NoRef
             /\ pc \in {"reproject", "fold", "assemble", "write_collection",
                        "write_item", "done"} => FALSE
             /\ (pc = "error" /\ id # NoId /\ dirs # {}) => err = "RuntimeError"

\* C29 witness: an item has been assembled from c.tif, whose reprojection
\* changed its size, and the ungeoreferenced n.tif, backfilled against the
\* size c.tif had when the reference was captured
C29_Witness ==
    /\ item.built
    /\ data = <<P("in", "c", ".tif"), P("in", "n", ".tif")>>
    /\ ref.size = <<1, 1>>
    /\ RasterOf(fs, P(AssetDir, "c", ".tif")).w = 2

(***************************************************************************)
(* Properties of _expand_input_to_cogs.                                    *)
(***************************************************************************)
\* the characters of s that are letters, digits, "." or "-", in order
RECURSIVE Kept(_)
Kept(s) ==
    IF Len(s) = 0 THEN ""
    ELSE (IF Ch(s, 1) \in SafeNameChars \ {"_"} THEN Ch(s, 1) ELSE "")
         \o Kept(Tail(s))

\* the subdataset name of a subdataset string of the model
SdsNameOf(t) ==
    LET pre == CHOOSE q \in SdsPrefixes : StartsWith(t, q)
    IN  IF Contains(t, "\"://") THEN SubSeq(t, Len(pre) + 1, Len(t)) ELSE t

\* the path an entry names
EntryPath(e) == IF IsStr(e) THEN PathOf(e.str) ELSE e

\* every returned path is a file holding one raster
OneRasterEach(f, out) ==
    \A i \in 1..Len(out) : out[i] \in DOMAIN f /\ Len(f[out[i]].arrays) = 1

BandsChosen == pc \in {"normalize", "save", "returned"}

\* C18: a source without bands makes the call fail with an error and nothing
\* is built; for n >= 1 source bands the quicklook is built from exactly three
\* bands, (b1,b1,b1) when n = 1, (b1,b2,b1) when n = 2 and (b1,b2,b3) when
\* n >= 3, and the saved image has three bands, each the normalisation of the
\* band chosen.
C18_ThreeBands ==
    LET n == Len(thumb.src)
        b == thumb.src
    IN
    /\ n = 0 => /\ pc \in {"bands", "raised"}
                /\ pc = "raised" => err = "RuntimeError"
                /\ thumb.rgb = <<>> /\ thumb.image = <<>>
    /\ n >= 1 => /\ pc # "raised"
                 /\ err = ""
    /\ (BandsChosen /\ n = 1) => thumb.rgb = <<b[1], b[1], b[1]>>
    /\ (BandsChosen /\ n = 2) => thumb.rgb = <<b[1], b[2], b[1]>>
    /\ (BandsChosen /\ n >= 3) => thumb.rgb = <<b[1], b[2], b[3]>>
    /\ pc \in {"save", "returned"} =>
          /\ Len(thumb.out) = 3
          /\ \A k \in 1..3 : \E c \in NanCasts :
                thumb.out[k] = NormalizeBand(thumb.rgb[k], thumb.nodata, c)
    /\ pc = "returned" => thumb.image.bands = 3

\* C18 witness: the quicklook of a source with two different bands has been
\* saved
C18_Witness ==
    /\ pc = "returned"
    /\ thumb.src = <<BandMix, BandOutlier>>
    /\ thumb.image.bands = 3

\* a pixel of a band equals nodata: the same number, or NaN where nodata is
\* NaN
EqualsNodata(b, nodata, i) ==
    /\ nodata.set
    /\ IF nodata.nan THEN i \in b.nans
       ELSE i \notin b.nans /\ b.px[i] = nodata.value

\* the 2nd and the 98th percentile of the valid pixels of a band coincide
PercentilesCoincide(b, nodata) ==
    LET V == valid(b, nodata) IN
    /\ V # {}
    /\ V \cap b.nans = {}
    /\ percentile(b, V, 2) = percentile(b, V, 98)

\* C19 as claimed: once the bands are normalised every output pixel lies in
\* 0..255, every pixel equal to nodata is 0, a band whose pixels all equal
\* nodata or whose 2nd and 98th percentiles coincide has become an all-zero
\* band, the call has not raised, and the quicklook of a single-band raster
\* whose pixels all equal nodata is an all-zero image of the configured size.
C19_NormalisedBands ==
    /\ Len(thumb.src) >= 1 => pc # "raised"
    /\ pc \in {"save", "returned"} =>
          \A k \in 1..3 :
             LET b == thumb.rgb[k]
                 o == thumb.out[k]
             IN
             /\ \A i \in DOMAIN o : o[i] \in 0..255
             /\ \A i \in DOMAIN o : EqualsNodata(b, thumb.nodata, i) => o[i] = 0
             /\ (\A i \in DOMAIN o : EqualsNodata(b, thumb.nodata, i))
                   => \A i \in DOMAIN o : o[i] = 0
             /\ PercentilesCoincide(b, thumb.nodata)
                   => \A i \in DOMAIN o : o[i] = 0
    /\ ( /\ pc = "returned"
         /\ Len(thumb.src) = 1
         /\ \A i \in DOMAIN thumb.src[1].px :
               EqualsNodata(thumb.src[1], thumb.nodata, i) )
          => /\ thumb.image.all_zero
             /\ thumb.image.size = <<ThumbSize, ThumbSize>>

(***************************************************************************)
(* Properties of the timestamp tokens.                                     *)
(***************************************************************************)
RECURSIVE DaysBeforeYear(_)
DaysBeforeYear(y) ==
    IF y <= 2024 THEN 0
    ELSE DaysBeforeYear(y - 1) + (IF IsLeap(y - 1) THEN 366 ELSE 365)

RECURSIVE DaysBeforeMonth(_, _)
DaysBeforeMonth(y, mo) ==
    IF mo <= 1 THEN 0 ELSE DaysBeforeMonth(y, mo - 1) + DaysIn(y, mo - 1)

\* the minutes from the start of 2024 to the wall clock of t
WallMinutes(t) ==
    ((DaysBeforeYear(t.y) + DaysBeforeMonth(t.y, t.mo) + t.d - 1) * 24 + t.h) * 60
        + t.mi

\* the instant a datetime names, in UTC, to the millisecond: minutes from the
\* start of 2024, seconds, milliseconds.  A naive datetime is read as UTC.
Instant(t) ==
    <<WallMinutes(t) - (IF t.aware THEN t.off ELSE 0), t.s, t.us \div 1000>>

\* the instant parse_hub_ts returned, which is in UTC
InstantRead(b) ==
    <<WallMinutes(b), b.s, b.ms>>

\* C21 as claimed: the token of every instant t of millisecond precision is
\* read back by parse_hub_ts as t in UTC; the token made without an argument
\* is read back as the current UTC time, to the millisecond; and the datetime
\* of an assembled item is the instant the token of its id encodes.
C21_TokenRoundTrip ==
    /\ (clock # None /\ clock.at # "call") =>
          /\ clock.at # "ValueError"
          /\ Len(clock.ts) = 19
    /\ (clock # None /\ clock.at = "read" /\ clock.dt # None) =>
          InstantRead(clock.back) = Instant(clock.dt)
    /\ (clock # None /\ clock.at = "read" /\ clock.dt = None) =>
          InstantRead(clock.back) = Instant(clock.utcnow)
    /\ item.built => item.datetime = parse_hub_ts(id.ts)

(***************************************************************************)
(* Properties of SBAS.run_pipeline.                                        *)
(***************************************************************************)
\* the position of a step in STEPS
StepIndex(name) == CHOOSE k \in DOMAIN STEPS : STEPS[k] = name

\* the steps of the set S from position k on, in STEPS order
RECURSIVE StepsFrom(_, _)
StepsFrom(k, S) ==
    IF k > Len(STEPS) THEN <<>>
    ELSE (IF STEPS[k] \in S THEN <<STEPS[k]>> ELSE <<>>) \o StepsFrom(k + 1, S)

\* C22 as claimed: a run with resume set and runtime.start_from_step = S, a
\* step of STEPS, that is not a dry run, names no single step and in which no
\* step raises, has executed when it finishes exactly the enabled steps at or
\* after S, in STEPS order, and none before S.
C22_ResumeFromStep ==
    ( /\ pipe # None /\ pipe.prog = "SBAS"
      /\ pipe.status = "exit 0"
      /\ pipe.resume /\ pipe.start_from_step \in StepNames
      /\ ~pipe.dry_run /\ pipe.specific_step = "" )
    => pipe.executed = StepsFrom(StepIndex(pipe.start_from_step), pipe.steps_config)

\* C23: the steps executed so far are enabled steps in STEPS order, each at
\* most once; a run that names no single step and does not resume has executed
\* every enabled step when it finishes; once a step has raised it is the last
\* step executed and the process has exited with status 1, which happens in
\* no other case; and in a dry run no step is executed at all.
C23_OrderedUntilFailure ==
    (pipe # None /\ pipe.prog = "SBAS") =>
       LET ex == pipe.executed IN
       /\ \A k \in DOMAIN ex : ex[k] \in pipe.steps_config
       /\ \A k \in DOMAIN ex : \A l \in DOMAIN ex :
             k < l => StepIndex(ex[k]) < StepIndex(ex[l])
       /\ \A k \in DOMAIN ex : StepIndex(ex[k]) <= pipe.i
       /\ (pipe.status = "exit 0" /\ ~pipe.dry_run /\ pipe.specific_step = ""
               /\ ~(pipe.resume /\ pipe.start_from_step # ""))
             => ex = StepsFrom(1, pipe.steps_config)
       /\ pipe.raised # "" => /\ pipe.status = "exit 1"
                              /\ ex # <<>> /\ ex[Len(ex)] = pipe.raised
                              /\ ~ENABLED NextSbas
       /\ pipe.status = "exit 1" => pipe.raised # ""
       /\ pipe.dry_run => ex = <<>> /\ pipe.status # "exit 1"

\* C23 witness: the third enabled step of a run has raised after two steps
\* completed, and the process has exited with status 1
C23_Witness ==
    /\ pipe # None /\ pipe.prog = "SBAS"
    /\ pipe.status = "exit 1"
    /\ pipe.steps_config = StepNames
    /\ pipe.executed = <<STEPS[1], STEPS[2], STEPS[3]>>
    /\ pipe.raised = STEPS[3]

(***************************************************************************)
(* Properties of run_pipeline.main.                                        *)
(***************************************************************************)
\* the rank of a stage in the order config init, config overrides, wizard,
\* SBAS, STAC
StageRank(stage) ==
    CASE stage = "init" -> 1
      [] stage = "set" -> 2
      [] stage = "wizard" -> 3
      [] stage = "sbas" -> 4
      [] stage = "stac" -> 5

\* the stages ran in order (only the overrides repeat), and each was started
\* only after every earlier stage that ran returned 0
StagesInOrder(ran) ==
    /\ \A a \in DOMAIN ran : \A b \in DOMAIN ran :
          a < b => /\ StageRank(ran[a][1]) <= StageRank(ran[b][1])
                   /\ StageRank(ran[a][1]) = StageRank(ran[b][1])
                         => ran[a][1] = "set"
                   /\ ran[a][2] = 0

\* the return code of the last stage that ran, 0 if none ran
LastReturnCode(ran) == IF ran = <<>> THEN 0 ELSE ran[Len(ran)][2]

\* the run ended in ap.error: a script that was to be run does not exist
MissingScript(p) ==
    \/ ~p.cfgmgr_exists
    \/ p.sbas # "" /\ ~p.sbas_exists
    \/ p.stac # "" /\ ~p.stac_exists

C25_SelectedIdIsPassed ==
    cli # None =>
       \A r \in DOMAIN cli.runs :
          LET rec == cli.runs[r] IN
          /\ (~rec.auto /\ cli.args.item_id # "")
                => rec.called /\ rec.item_id = cli.args.item_id
          /\ (rec.auto /\ rec.service_uid # "")
                => /\ rec.called
                   /\ rec.item_id = rec.service_uid \o "_"
                         \o utc_timestamp_millis(None, TimeOfRun(cli.base, r))

\* the runs that made an id with --auto-item-id
AutoRuns == {r \in DOMAIN cli.runs : cli.runs[r].auto /\ cli.runs[r].ts # ""}

\* C28: every id made by the auto-id generator for a service uid of
\* [A-Z0-9-]+ matches the ad-hoc pattern that create_stac_structure parses,
\* with the service uid and the token as its groups; parse_hub_ts accepts the
\* token (and reads the time of the run, to the millisecond); and the id is
\* accepted for collection LS-DF, and gets through the identifier checks of
\* create_stac_structure, exactly when the service uid starts with "LS-DF".
C28_AutoIdIsAdhoc ==
    cli # None =>
       /\ cli.bound =>
             /\ cli.local_item_id = cli.args.service_uid \o "_" \o cli.ts
             /\ _ADHOC_RE(cli.local_item_id).ok
       /\ \A r \in AutoRuns :
             LET rec == cli.runs[r]
                 m == _ADHOC_RE(rec.item_id)
             IN
             /\ m.ok
             /\ m.svc = rec.service_uid
             /\ m.ts = rec.ts
             /\ parse_hub_ts(rec.ts).ok
             /\ InstantRead(parse_hub_ts(rec.ts)) = Instant(TimeOfRun(cli.base, r))
             /\ ValidateItemId("LS-DF", rec.item_id) = "ok"
                   <=> StartsWith(rec.service_uid, "LS-DF")
             /\ IdGetsThrough("LS-DF", rec.item_id)
                   <=> StartsWith(rec.service_uid, "LS-DF")
             /\ rec.persisted => StartsWith(rec.service_uid, "LS-DF")

\* C28 witness: a run has persisted an item under an id made for the service
\* uid LS-DF9, which starts with LS-DF and is no item key of the collection,
\* and a later run an item just before midnight
C28_Witness ==
    /\ cli # None
    /\ cli.args.service_uid = "LS-DF9"
    /\ Len(cli.runs) >= 2
    /\ cli.runs[1].persisted
    /\ cli.runs[2].item_id = "LS-DF9_20251231T235902d086"

\* C30 as claimed: in sequential runs with --auto-item-id for one service uid
\* into one output root, the counter a run obtains from
\* next_counter_for_service is strictly greater than the counter of every
\* earlier run whose item was persisted.
C30_CountersGrow ==
    cli # None =>
       \A r \in AutoRuns : \A q \in AutoRuns :
          (q < r /\ cli.runs[q].persisted
                 /\ cli.runs[q].service_uid = cli.runs[r].service_uid)
             => ToInt(cli.runs[r].ctr) > ToInt(cli.runs[q].ctr)

====
